---- MODULE Spec2Model ----
(***************************************************************************)
(* A model of the Wake Analyzer plan validator, execution engine and the   *)
(* /execute handler.                                                       *)
(*                                                                         *)
(* JSON / Python values are tagged records: [t |-> "str", s |-> ...],      *)
(* [t |-> "num", n |-> ...], [t |-> "list", items |-> <<...>>],            *)
(* [t |-> "dict", m |-> [key |-> value]], [t |-> "null"], and              *)
(* [t |-> "absent"] for a key a mapping does not hold.                     *)
(***************************************************************************)
EXTENDS Integers, Sequences, FiniteSets, TLC

VARIABLES
    pc,           \* position of the call in progress
    plan,         \* the plan handed to validate_plan / execute_plan
    csvfile,      \* the dataset file the call loads
    validation,   \* what validate_plan returned (or that it raised)
    df,           \* ExecutionEngine.df: the loaded frame, or NoFrame
    column_info,  \* ExecutionEngine.column_info
    filtered,     \* filtered_df of the execute_plan call in progress
    opresult,     \* what _execute_operation returned
    response,     \* what execute_plan returned
    reply,        \* the HTTP reply of the /execute handler
    analyses,     \* the Analysis rows the handler has written
    calls,        \* the components invoked so far, in order
    history,      \* the calls one engine has completed, with what each returned
    fit_converges,\* whether ExponentialSmoothing fits a window it accepts
    sessions,     \* the service's sessions: session_id -> session info
    requests,     \* the service's requests in progress, one per thread
    upload_dir,   \* the paths of the files saved in settings.UPLOAD_DIR
    datasets      \* the Dataset rows committed to the database

vars ==
    <<pc, plan, csvfile, validation, df, column_info, filtered, opresult, response, reply,
      analyses, calls, history, fit_converges, sessions, requests, upload_dir, datasets>>

(***************************************************************************)
(* Bounds of the model                                                     *)
(***************************************************************************)
MaxFilters == 2
MaxRows == 2

(***************************************************************************)
(* Python values                                                           *)
(***************************************************************************)
Absent == [t |-> "absent"]
Null == [t |-> "null"]
S(s) == [t |-> "str", s |-> s]
N(n) == [t |-> "num", n |-> n]
B(b) == [t |-> "bool", b |-> b]
L(q) == [t |-> "list", items |-> q]
D(m) == [t |-> "dict", m |-> m]

IsDict(v) == v.t = "dict"
IsList(v) == v.t = "list"
IsStr(v) == v.t = "str"

\* hash(v) succeeds: lists and dicts are unhashable
Hashable(v) == v.t \notin {"list", "dict"}

\* bool(v), with a missing key read through .get() (None)
Truthy(v) ==
    CASE v.t = "absent" -> FALSE
      [] v.t = "null" -> FALSE
      [] v.t = "str" -> v.s # ""
      [] v.t = "num" -> v.n # 0
      [] v.t = "bool" -> v.b
      [] v.t = "list" -> Len(v.items) > 0
      [] OTHER -> \E k \in DOMAIN v.m : v.m[k] # Absent

\* key in mapping
HasKey(d, k) == k \in DOMAIN d.m /\ d.m[k] # Absent

\* mapping.get(key): None when the key is missing
Get(d, k) == IF HasKey(d, k) THEN d.m[k] ELSE Null

SeqToSet(q) == {q[i] : i \in 1..Len(q)}

RECURSIVE Flatten(_)
Flatten(qq) == IF qq = <<>> THEN <<>> ELSE Head(qq) \o Flatten(Tail(qq))

(***************************************************************************)
(* PlanValidator                                                           *)
(***************************************************************************)
VALID_OPERATIONS ==
    {"mean", "sum", "count", "min", "max", "std", "correlation", "regression", "forecast"}

VALID_OPERATORS == {"==", "!=", ">", "<", ">=", "<="}

\* the set also holds None
VALID_CHART_TYPES == {"line", "bar", "scatter", "heatmap", "box", "histogram"}

\* one entry of errors / warnings: the rule it belongs to, which message, and
\* the filter index the message carries (-1 when it carries none)
Err(rule, code, index) == [rule |-> rule, code |-> code, index |-> index]

\* what a section of the validator did: raised, or appended errs
Raise(exc) == [raised |-> TRUE, exc |-> exc, errs |-> <<>>]
Errs(errs) == [raised |-> FALSE, exc |-> "", errs |-> errs]

\* x in <a set of strings>: hashes x first
InStrSet(v, set) == IsStr(v) /\ v.s \in set

\* lines 33-39
OperationCheck(p) ==
    IF ~HasKey(p, "operation") THEN Errs(<<Err("operation", "missing_operation", -1)>>)
    ELSE IF ~Hashable(p.m.operation) THEN Raise("TypeError")
    ELSE IF ~InStrSet(p.m.operation, VALID_OPERATIONS)
         THEN Errs(<<Err("operation", "invalid_operation", -1)>>)
    ELSE Errs(<<>>)

\* lines 107-132
ValueCheck(f, index) ==
    IF ~HasKey(f, "value") THEN <<Err("filters", "filter_missing_value", index)>> ELSE <<>>

ColumnCheck(f, index) ==
    IF ~HasKey(f, "column") THEN <<Err("filters", "filter_missing_column", index)>>
    ELSE IF ~IsStr(f.m.column) THEN <<Err("filters", "filter_column_not_string", index)>>
    ELSE <<>>

_validate_filter(filter_obj, index) ==
    IF ~IsDict(filter_obj) THEN Errs(<<Err("filters", "filter_not_object", index)>>)
    ELSE IF HasKey(filter_obj, "operator") /\ ~Hashable(filter_obj.m.operator)
         THEN Raise("TypeError")
    ELSE Errs(ColumnCheck(filter_obj, index)
              \o (IF ~HasKey(filter_obj, "operator")
                  THEN <<Err("filters", "filter_missing_operator", index)>>
                  ELSE IF ~InStrSet(filter_obj.m.operator, VALID_OPERATORS)
                       THEN <<Err("filters", "filter_invalid_operator", index)>>
                       ELSE <<>>)
              \o ValueCheck(filter_obj, index))

\* lines 42-48; enumerate() counts from 0
FiltersCheck(p) ==
    IF ~HasKey(p, "filters") THEN Errs(<<>>)
    ELSE IF ~IsList(p.m.filters) THEN Errs(<<Err("filters", "filters_not_array", -1)>>)
    ELSE LET fs == p.m.filters.items
             each == [i \in 1..Len(fs) |-> _validate_filter(fs[i], i - 1)]
         IN IF \E i \in 1..Len(fs) : each[i].raised
            THEN Raise("TypeError")
            ELSE Errs(Flatten([i \in 1..Len(fs) |-> each[i].errs]))

\* lines 51-55
GroupByCheck(p) ==
    IF ~HasKey(p, "group_by") THEN Errs(<<>>)
    ELSE IF ~IsList(p.m.group_by) THEN Errs(<<Err("group_by", "group_by_not_array", -1)>>)
    ELSE IF \E i \in 1..Len(p.m.group_by.items) : ~IsStr(p.m.group_by.items[i])
         THEN Errs(<<Err("group_by", "group_by_not_strings", -1)>>)
    ELSE Errs(<<>>)

\* lines 58-63
ChartTypeCheck(p) ==
    IF ~HasKey(p, "chart_type") THEN Errs(<<>>)
    ELSE IF ~Hashable(p.m.chart_type) THEN Raise("TypeError")
    ELSE IF p.m.chart_type.t = "null" \/ InStrSet(p.m.chart_type, VALID_CHART_TYPES)
         THEN Errs(<<>>)
    ELSE Errs(<<Err("chart_type", "invalid_chart_type", -1)>>)

\* lines 66-71
ClarificationCheck(p) ==
    IF Truthy(Get(p, "requires_clarification")) /\ ~Truthy(Get(p, "clarification_question"))
    THEN Errs(<<Err("clarification", "clarification_question_missing", -1)>>)
    ELSE Errs(<<>>)

OperationIs(p, names) == InStrSet(Get(p, "operation"), names)

\* lines 76-80
TargetWarnings(p) ==
    IF OperationIs(p, {"mean", "sum", "std", "min", "max"}) /\ ~Truthy(Get(p, "target_column"))
    THEN <<Err("operation_specific", "target_column_recommended", -1)>>
    ELSE <<>>

\* lines 82-92
AxisErrors(p) ==
    IF OperationIs(p, {"correlation", "regression"})
       /\ ~(Truthy(Get(p, "x_axis")) /\ Truthy(Get(p, "y_axis")))
    THEN <<Err("operation_specific", "requires_both_axes", -1)>>
    ELSE <<>>

\* lines 94-98
ForecastErrors(p) ==
    IF OperationIs(p, {"forecast"})
    THEN (IF ~Truthy(Get(p, "time_column"))
          THEN <<Err("operation_specific", "forecast_requires_time_column", -1)>> ELSE <<>>)
         \o (IF ~Truthy(Get(p, "target_column"))
             THEN <<Err("operation_specific", "forecast_requires_target_column", -1)>> ELSE <<>>)
    ELSE <<>>

\* a verdict that lets warnings block as errors do
VerdictWarningsBlock(errors, warnings) ==
    [raised |-> FALSE, exc |-> "", valid |-> Len(errors) = 0 /\ Len(warnings) = 0,
     errors |-> errors, warnings |-> warnings]

\* lines 100-104
Verdict(errors, warnings) ==
    [raised |-> FALSE, exc |-> "", valid |-> Len(errors) = 0,
     errors |-> errors, warnings |-> warnings]

Raised(exc) ==
    [raised |-> TRUE, exc |-> exc, valid |-> FALSE, errors |-> <<>>, warnings |-> <<>>]

\* a plan that is no mapping: the first subscript or .get() raises
NonMappingRaise(p) ==
    IF p.t \in {"null", "num", "bool"} THEN Raised("TypeError")
    ELSE IF IsList(p) /\ \E k \in {"operation", "filters", "group_by", "chart_type"} :
                            S(k) \in SeqToSet(p.items)
         THEN Raised("TypeError")
    ELSE Raised("AttributeError")

\* lines 22-104
validate_plan(p) ==
    IF ~IsDict(p) THEN NonMappingRaise(p)
    ELSE LET sections == <<OperationCheck(p), FiltersCheck(p), GroupByCheck(p),
                           ChartTypeCheck(p), ClarificationCheck(p)>>
         IN IF \E i \in 1..Len(sections) : sections[i].raised
            THEN Raised("TypeError")
            ELSE Verdict(Flatten([i \in 1..Len(sections) |-> sections[i].errs])
                             \o AxisErrors(p) \o ForecastErrors(p),
                         TargetWarnings(p))

(***************************************************************************)
(* Plans                                                                   *)
(***************************************************************************)
MkPlan(op, tc, fs, gb, tm, x, y, ct, rc, cq) ==
    D([operation |-> op, target_column |-> tc, filters |-> fs, group_by |-> gb,
       time_column |-> tm, x_axis |-> x, y_axis |-> y, chart_type |-> ct,
       requires_clarification |-> rc, clarification_question |-> cq])

MkFilter(column, operator, value) ==
    D([column |-> column, operator |-> operator, value |-> value])

SeqsUpTo(set, n) == UNION {[1..k -> set] : k \in 0..n}

\* filter objects a caller may send, well-formed or not
FilterObjects ==
    { MkFilter(S("region"), S("=="), S("N")),
      MkFilter(S("sales"), S(">"), N(10)),
      S("region == N"),
      MkFilter(Absent, S("=="), S("N")),
      MkFilter(N(1), S("=="), S("N")),
      MkFilter(S("region"), Absent, S("N")),
      MkFilter(S("region"), S("~"), S("N")),
      MkFilter(S("region"), L(<<S("==")>>), S("N")),
      MkFilter(S("region"), S("=="), Absent),
      MkFilter(S("region"), S("=="), L(<<S("N"), S("S")>>)),
      MkFilter(Absent, Absent, Absent) }

OperationValues ==
    { Absent, S("mean"), S("count"), S("correlation"), S("regression"), S("forecast"),
      S("median"), L(<<S("mean")>>) }

GroupByValues == { Absent, S("region"), L(<<S("region")>>), L(<<S("region"), N(1)>>) }

ChartTypeValues == { Absent, Null, S("bar"), S("pie"), L(<<S("bar")>>) }

ClarificationValues ==
    { <<Absent, Absent>>, <<B(TRUE), Absent>>, <<B(TRUE), S("")>>, <<B(TRUE), S("Which region?")>> }

\* plans varying every field but the filter list
FieldPlans ==
    { MkPlan(op, tc, fs, gb, tm, x, y, ct, cl[1], cl[2]) :
        op \in OperationValues, tc \in {Absent, S("sales")},
        fs \in {Absent, S("region == N")}, gb \in GroupByValues,
        tm \in {Absent, S("month")}, x \in {Absent, S(""), S("units")},
        y \in {Absent, S(""), S("sales")}, ct \in ChartTypeValues,
        cl \in ClarificationValues }

\* plans varying the filter list
FilterPlans ==
    { MkPlan(op, Absent, L(fs), Absent, Absent, Absent, Absent, ct, Absent, Absent) :
        op \in {Absent, S("count"), S("median")},
        fs \in SeqsUpTo(FilterObjects, MaxFilters), ct \in {Absent, S("pie")} }

\* plans that are no mapping
NonMappingPlans == { Null, N(1), S("mean"), L(<<>>), L(<<S("operation")>>) }

ValidatorPlans == FieldPlans \cup FilterPlans \cup NonMappingPlans

(***************************************************************************)
(* CSV files and frames                                                    *)
(***************************************************************************)
Columns == <<"region", "sales">>

\* the text of one data line of a file
RowTexts ==
    { [region |-> "N", sales |-> "10"], [region |-> "S", sales |-> "20"],
      [region |-> "N", sales |-> "20"], [region |-> "S", sales |-> "unknown"] }

Unreadable == [readable |-> FALSE]

CsvFile(rows) == [readable |-> TRUE, header |-> Columns, rows |-> rows]

Files == {Unreadable} \cup {CsvFile(rows) : rows \in SeqsUpTo(RowTexts, MaxRows)}

NumericTexts == {"10", "11", "12", "13", "14", "15", "16", "17", "18", "19", "20"}

\* float(text) for the texts of the model
TextToNumber(s) ==
    CASE s = "10" -> 10 [] s = "11" -> 11 [] s = "12" -> 12 [] s = "13" -> 13
      [] s = "14" -> 14 [] s = "15" -> 15 [] s = "16" -> 16 [] s = "17" -> 17
      [] s = "18" -> 18 [] s = "19" -> 19 [] OTHER -> 20

\* position of a text in Python's string order: digits, then capitals, then small letters
StrRank(s) ==
    CASE s \in NumericTexts -> TextToNumber(s)
      [] s = "N" -> 21 [] s = "S" -> 22 [] s = "abc" -> 23 [] OTHER -> 24

\* the dtype read_csv infers: numeric when every cell of the column parses
InferDtype(rows, c) ==
    IF Len(rows) > 0 /\ \A i \in 1..Len(rows) : rows[i][c] \in NumericTexts
    THEN "int64" ELSE "object"

ColumnSet(frame) == SeqToSet(frame.columns)

\* pd.read_csv on a readable file
read_csv(file) ==
    LET dtypes == [c \in SeqToSet(file.header) |-> InferDtype(file.rows, c)]
    IN [loaded |-> TRUE, columns |-> file.header, dtypes |-> dtypes,
        rows |-> [i \in 1..Len(file.rows) |->
                    [c \in SeqToSet(file.header) |->
                        IF dtypes[c] = "int64" THEN N(TextToNumber(file.rows[i][c]))
                        ELSE S(file.rows[i][c])]]]

Head5(rows) == SubSeq(rows, 1, IF Len(rows) < 5 THEN Len(rows) ELSE 5)

\* a frame without columns or rows
EmptyFrame == [loaded |-> TRUE, columns |-> <<>>, dtypes |-> <<>>, rows |-> <<>>]

\* a load that leaves an empty frame behind when the file cannot be read
load_csv_partial(old_df, old_info, file) ==
    IF ~file.readable
    THEN [df |-> EmptyFrame, column_info |-> old_info,
          ret |-> [success |-> FALSE, error |-> "read_csv failed"]]
    ELSE [df |-> read_csv(file), column_info |-> read_csv(file).dtypes,
          ret |-> [success |-> TRUE, columns |-> read_csv(file).columns,
                   column_types |-> read_csv(file).dtypes,
                   row_count |-> Len(read_csv(file).rows),
                   preview |-> Head5(read_csv(file).rows)]]

\* lines 37-56: the engine's state after the call, and what the call returns
load_csv(old_df, old_info, file) ==
    IF ~file.readable
    THEN [df |-> old_df, column_info |-> old_info,
          ret |-> [success |-> FALSE, error |-> "read_csv failed"]]
    ELSE LET frame == read_csv(file)
         IN [df |-> frame, column_info |-> frame.dtypes,
             ret |-> [success |-> TRUE, columns |-> frame.columns,
                      column_types |-> frame.dtypes, row_count |-> Len(frame.rows),
                      preview |-> Head5(frame.rows)]]

(***************************************************************************)
(* ExecutionEngine._apply_filters                                          *)
(***************************************************************************)
\* an exception: its type, which message, and the values the message quotes
Exc(type, msg, quoted) == [exc |-> type, msg |-> msg, quoted |-> quoted]

Ok(v) == [ok |-> TRUE, value |-> v]
Fail(e) == [ok |-> FALSE, error |-> e]

\* float(value), lines 122-127
FloatOf(v) ==
    CASE v.t = "num" -> Ok(v)
      [] v.t = "bool" -> Ok(N(IF v.b THEN 1 ELSE 0))
      [] v.t = "str" /\ v.s \in NumericTexts -> Ok(N(TextToNumber(v.s)))
      [] OTHER -> Fail("not a number")

OrderingOperators == {">", "<", ">=", "<="}

\* cell <operator> value on one row, for an operator of lines 130-141
Compare(cell, operator, value) ==
    IF cell.t = "num" /\ value.t = "num"
    THEN CASE operator = "==" -> cell.n = value.n
           [] operator = "!=" -> cell.n # value.n
           [] operator = ">" -> cell.n > value.n
           [] operator = "<" -> cell.n < value.n
           [] operator = ">=" -> cell.n >= value.n
           [] OTHER -> cell.n <= value.n
    ELSE IF cell.t = "str" /\ value.t = "str"
    THEN CASE operator = "==" -> cell.s = value.s
           [] operator = "!=" -> cell.s # value.s
           [] operator = ">" -> StrRank(cell.s) > StrRank(value.s)
           [] operator = "<" -> StrRank(cell.s) < StrRank(value.s)
           [] operator = ">=" -> StrRank(cell.s) >= StrRank(value.s)
           [] OTHER -> StrRank(cell.s) <= StrRank(value.s)
    ELSE operator = "!="

SelectRows(frame, keep(_)) ==
    [frame EXCEPT !.rows = SelectSeq(frame.rows, keep)]

\* lines 130-141: an operator outside the six leaves the frame as it is; an ordering
\* of text cells against a value that is no text raises as soon as a cell is compared
ApplyOperator(frame, column, operator, value) ==
    IF ~InStrSet(operator, VALID_OPERATORS) THEN Ok(frame)
    ELSE IF /\ frame.dtypes[column] = "object"
            /\ value.t # "str"
            /\ operator.s \in OrderingOperators
            /\ Len(frame.rows) > 0
         THEN Fail(Exc("TypeError", "unorderable", <<>>))
    ELSE LET keep(row) == Compare(row[column], operator.s, value)
         IN Ok(SelectRows(frame, keep))

\* line 116
ColumnMissing(frame, column) == ~(IsStr(column) /\ column.s \in ColumnSet(frame))

\* the error raised without the name of the column
ColumnNotFoundUnnamed(column) == Fail(Exc("ValueError", "column_not_found", <<>>))

\* line 117
ColumnNotFound(column) == Fail(Exc("ValueError", "column_not_found", <<column>>))

\* lines 112-141, one iteration of the loop
ApplyFilter(frame, f) ==
    IF ~IsDict(f) THEN Fail(Exc("TypeError", "bad_subscript", <<>>))
    ELSE IF ~HasKey(f, "column") THEN Fail(Exc("KeyError", "key", <<S("column")>>))
    ELSE IF ~HasKey(f, "operator") THEN Fail(Exc("KeyError", "key", <<S("operator")>>))
    ELSE IF ~HasKey(f, "value") THEN Fail(Exc("KeyError", "key", <<S("value")>>))
    ELSE IF ~Hashable(f.m.column) THEN Fail(Exc("TypeError", "unhashable", <<>>))
    ELSE IF ColumnMissing(frame, f.m.column) THEN ColumnNotFound(f.m.column)
    ELSE IF frame.dtypes[f.m.column.s] = "int64"
         THEN IF FloatOf(f.m.value).ok
              THEN ApplyOperator(frame, f.m.column.s, f.m.operator, FloatOf(f.m.value).value)
              ELSE Fail(Exc("ValueError", "cannot_compare", <<f.m.column, f.m.value>>))
    ELSE ApplyOperator(frame, f.m.column.s, f.m.operator, f.m.value)

\* every filter applied to the frame as loaded, the last one's rows returned
RECURSIVE ApplyFilterListUnchained(_, _)
ApplyFilterListUnchained(frame, fs) ==
    IF fs = <<>> THEN Ok(frame)
    ELSE LET first == ApplyFilter(frame, Head(fs))
         IN IF first.ok /\ Len(fs) > 1 THEN ApplyFilterListUnchained(frame, Tail(fs))
            ELSE first

\* lines 109-143: each filter narrows what the one before it left
RECURSIVE ApplyFilterList(_, _)
ApplyFilterList(frame, fs) ==
    IF fs = <<>> THEN Ok(frame)
    ELSE LET first == ApplyFilter(frame, Head(fs))
         IN IF first.ok THEN ApplyFilterList(first.value, Tail(fs)) ELSE first

\* lines 107-143; filters is whatever plan.get('filters', []) gave
_apply_filters(frame, filters) ==
    IF IsList(filters) THEN ApplyFilterList(frame, filters.items)
    ELSE IF filters = S("") THEN Ok(frame)
    ELSE IF IsStr(filters) THEN Fail(Exc("TypeError", "bad_subscript", <<>>))
    ELSE Fail(Exc("TypeError", "not_iterable", <<>>))

(***************************************************************************)
(* ExecutionEngine._execute_operation                                      *)
(***************************************************************************)
RECURSIVE Gcd(_, _)
Gcd(a, b) == IF b = 0 THEN a ELSE Gcd(b, a % b)

Abs(a) == IF a < 0 THEN -a ELSE a

\* the float a / b, kept exact as a fraction in lowest terms (b > 0)
Rat(a, b) ==
    LET g == Gcd(Abs(a), b)
    IN [t |-> "num", n |-> a \div g, d |-> b \div g]

NaN == [t |-> "nan"]

RECURSIVE SumSeq(_)
SumSeq(q) == IF q = <<>> THEN 0 ELSE Head(q) + SumSeq(Tail(q))

MinOf(set) == CHOOSE a \in set : \A b \in set : a <= b
MaxOf(set) == CHOOSE a \in set : \A b \in set : a >= b

\* the cells of one column, in row order
ColumnCells(rows, c) == [i \in 1..Len(rows) |-> rows[i][c]]

Numbers(cells) == [i \in 1..Len(cells) |-> cells[i].n]

\* sum of squared deviations from the mean, times Len(q)
SquaredDeviations(q) ==
    LET n == Len(q)
        total == SumSeq(q)
    IN SumSeq([i \in 1..n |-> (n * q[i] - total) * (n * q[i] - total)])

\* an aggregate of a numeric column's cells
NumericAggregate(operation, cells) ==
    LET q == Numbers(cells)
        n == Len(q)
    IN CASE operation = "sum" -> Ok(Rat(SumSeq(q), 1))
         [] n = 0 -> Ok(NaN)
         [] operation = "mean" -> Ok(Rat(SumSeq(q), n))
         [] operation = "min" -> Ok(Rat(MinOf(SeqToSet(q)), 1))
         [] operation = "max" -> Ok(Rat(MaxOf(SeqToSet(q)), 1))
         [] OTHER -> Ok(IF n < 2 THEN NaN
                        ELSE [t |-> "sqrt", of |-> Rat(SquaredDeviations(q), n * n * (n - 1))])

\* the texts of a column joined, read as a number: each numeric text has two digits
RECURSIVE JoinedNumber(_)
JoinedNumber(cells) ==
    IF cells = <<>> THEN 0
    ELSE JoinedNumber(SubSeq(cells, 1, Len(cells) - 1)) * 100
         + TextToNumber(cells[Len(cells)].s)

TextMin(cells) ==
    CHOOSE a \in SeqToSet(cells) : \A b \in SeqToSet(cells) : StrRank(a.s) <= StrRank(b.s)
TextMax(cells) ==
    CHOOSE a \in SeqToSet(cells) : \A b \in SeqToSet(cells) : StrRank(a.s) >= StrRank(b.s)

\* an aggregate of a text column's cells: sum joins the texts, min and max pick one,
\* and float() of the outcome fails unless it reads as a number; mean and std refuse text
ObjectAggregate(operation, cells) ==
    CASE operation = "sum" ->
            IF \A i \in 1..Len(cells) : cells[i].s \in NumericTexts
            THEN Ok(Rat(JoinedNumber(cells), 1))
            ELSE Fail(Exc("ValueError", "could_not_convert", <<>>))
      [] cells = <<>> -> Ok(NaN)
      [] operation \in {"min", "max"} ->
            LET pick == IF operation = "min" THEN TextMin(cells) ELSE TextMax(cells)
            IN IF pick.s \in NumericTexts THEN Ok(Rat(TextToNumber(pick.s), 1))
               ELSE Fail(Exc("ValueError", "could_not_convert", <<>>))
      [] OTHER -> Fail(Exc("TypeError", "could_not_convert", <<>>))

Aggregate(frame, operation, rows, c) ==
    IF frame.dtypes[c] = "int64" THEN NumericAggregate(operation, ColumnCells(rows, c))
    ELSE ObjectAggregate(operation, ColumnCells(rows, c))

\* the group key of a row: the cell itself for one column, the tuple for several
GroupKey(row, by) == IF Len(by) = 1 THEN row[by[1]] ELSE [i \in 1..Len(by) |-> row[by[i]]]

GroupKeys(frame, by) == {GroupKey(frame.rows[i], by) : i \in 1..Len(frame.rows)}

\* every row of the frame, whatever the key
GroupRowsUngrouped(frame, by, key) == frame.rows

GroupRows(frame, by, key) ==
    LET in_group(row) == GroupKey(row, by) = key
    IN SelectSeq(frame.rows, in_group)

\* the columns groupby() is given: a list of names, or one name
GroupColumns(group_by) ==
    IF IsStr(group_by) THEN <<group_by.s>>
    ELSE [i \in 1..Len(group_by.items) |->
            IF IsStr(group_by.items[i]) THEN group_by.items[i].s ELSE ""]

\* a missing target column replaced by the frame's sales column
TargetColDefaulted(p) ==
    IF Truthy(Get(p, "target_column")) THEN Get(p, "target_column") ELSE S("sales")

\* line 148: plan.get('target_column'), None when the plan has none
TargetCol(p) == Get(p, "target_column")

\* lines 151-180
Aggregation(frame, p) ==
    LET operation == p.m.operation.s
        target == TargetCol(p)
        group_by == Get(p, "group_by")
        by == GroupColumns(group_by)
    IN IF Truthy(group_by)
       THEN IF ~(IsStr(group_by) \/ IsList(group_by))
            THEN Fail(Exc("KeyError", "key", <<group_by>>))
            ELSE IF \E i \in 1..Len(by) : by[i] \notin ColumnSet(frame)
            THEN Fail(Exc("KeyError", "key", <<group_by>>))
            ELSE IF operation = "count"
            THEN Ok([t |-> "map",
                     m |-> [k \in GroupKeys(frame, by) |->
                              Rat(Len(GroupRows(frame, by, k)), 1)]])
            ELSE IF ColumnMissing(frame, target)
            THEN Fail(Exc("KeyError", "column_not_found", <<target>>))
            ELSE LET each == [k \in GroupKeys(frame, by) |->
                                Aggregate(frame, operation, GroupRows(frame, by, k), target.s)]
                 IN IF \E k \in GroupKeys(frame, by) : ~each[k].ok
                    THEN Fail(Exc("TypeError", "could_not_convert", <<>>))
                    ELSE Ok([t |-> "map", m |-> [k \in GroupKeys(frame, by) |-> each[k].value]])
       ELSE IF operation = "count" THEN Ok(Rat(Len(frame.rows), 1))
       ELSE IF ColumnMissing(frame, target)
       THEN Fail(Exc("KeyError", "key", <<target>>))
       ELSE Aggregate(frame, operation, frame.rows, target.s)

\* lines 183-212: the columns the operation reads
AxisColumns(frame, p) ==
    IF ~HasKey(p, "x_axis") THEN Fail(Exc("KeyError", "key", <<S("x_axis")>>))
    ELSE IF ~HasKey(p, "y_axis") THEN Fail(Exc("KeyError", "key", <<S("y_axis")>>))
    ELSE IF ColumnMissing(frame, p.m.x_axis) \/ ColumnMissing(frame, p.m.y_axis)
    THEN Fail(Exc("KeyError", "not_in_index", <<p.m.x_axis, p.m.y_axis>>))
    ELSE Ok([x_column |-> p.m.x_axis, y_column |-> p.m.y_axis])

\* lines 215-223: the columns the operation reads
ForecastColumns(frame, p) ==
    IF ~HasKey(p, "time_column") THEN Fail(Exc("KeyError", "key", <<S("time_column")>>))
    ELSE IF ~HasKey(p, "target_column") THEN Fail(Exc("KeyError", "key", <<S("target_column")>>))
    ELSE IF ColumnMissing(frame, p.m.time_column)
    THEN Fail(Exc("KeyError", "key", <<p.m.time_column>>))
    ELSE IF ColumnMissing(frame, p.m.target_column)
    THEN Fail(Exc("KeyError", "key", <<p.m.target_column>>))
    ELSE Ok([target_column |-> p.m.target_column])

\* the columns of the two axes are numeric
AxesNumeric(frame, p) ==
    frame.dtypes[p.m.x_axis.s] = "int64" /\ frame.dtypes[p.m.y_axis.s] = "int64"

\* sum over the rows of x * y
SumProducts(xs, ys) == SumSeq([i \in 1..Len(xs) |-> xs[i] * ys[i]])

\* n * sum(x * y) - sum(x) * sum(y): n squared times the covariance of the two columns
Spread(xs, ys) == Len(xs) * SumProducts(xs, ys) - SumSeq(xs) * SumSeq(ys)

\* lines 183-191: Pearson's coefficient, its square kept with its sign; NaN when a
\* column does not vary or a single row is left
Correlation(frame, p) ==
    LET cols == AxisColumns(frame, p)
        xs == Numbers(ColumnCells(frame.rows, p.m.x_axis.s))
        ys == Numbers(ColumnCells(frame.rows, p.m.y_axis.s))
    IN IF ~cols.ok THEN cols
       ELSE IF ~AxesNumeric(frame, p)
       THEN Fail(Exc("ValueError", "could_not_convert", <<>>))
       ELSE Ok([correlation_coefficient |->
                    IF Spread(xs, xs) = 0 \/ Spread(ys, ys) = 0 THEN NaN
                    ELSE [t |-> "signed_sqrt",
                          negative |-> Spread(xs, ys) < 0,
                          of |-> Rat(Spread(xs, ys) * Spread(xs, ys),
                                     Spread(xs, xs) * Spread(ys, ys))],
                x_column |-> p.m.x_axis, y_column |-> p.m.y_axis])

\* model.score of lines 204: 1 - residual / total sum of squares; not defined for
\* one sample, and 1.0 or 0.0 when y does not vary
RSquared(xs, ys) ==
    IF Len(xs) < 2 THEN NaN
    ELSE IF Spread(ys, ys) = 0 THEN Rat(1, 1)
    ELSE IF Spread(xs, xs) = 0 THEN Rat(0, 1)
    ELSE Rat(Spread(xs, ys) * Spread(xs, ys), Spread(xs, xs) * Spread(ys, ys))

\* lines 194-212: the least-squares line; when x does not vary the minimum-norm
\* solution has slope 0 and the mean of y as intercept
Regression(frame, p) ==
    LET cols == AxisColumns(frame, p)
        xs == Numbers(ColumnCells(frame.rows, p.m.x_axis.s))
        ys == Numbers(ColumnCells(frame.rows, p.m.y_axis.s))
        n == Len(xs)
        flat == Spread(xs, xs) = 0
    IN IF ~cols.ok THEN cols
       ELSE IF ~AxesNumeric(frame, p)
       THEN Fail(Exc("ValueError", "could_not_convert", <<>>))
       ELSE Ok([slope |-> IF flat THEN Rat(0, 1) ELSE Rat(Spread(xs, ys), Spread(xs, xs)),
                intercept |->
                    IF flat THEN Rat(SumSeq(ys), n)
                    ELSE Rat(SumSeq(ys) * Spread(xs, xs) - Spread(xs, ys) * SumSeq(xs),
                             n * Spread(xs, xs)),
                r_squared |-> RSquared(xs, ys),
                x_column |-> p.m.x_axis, y_column |-> p.m.y_axis])

\* the position of a cell in the order of its column
CellRank(cell) == IF cell.t = "num" THEN cell.n ELSE StrRank(cell.s)

\* line 220: df.sort_values(time_col), a new frame; rows with equal times keep their order
RECURSIVE SortRows(_, _)
SortRows(rows, c) ==
    IF rows = <<>> THEN <<>>
    ELSE LET last == rows[Len(rows)]
             rest == SortRows(SubSeq(rows, 1, Len(rows) - 1), c)
             before(r) == CellRank(r[c]) <= CellRank(last[c])
             after(r) == CellRank(r[c]) > CellRank(last[c])
         IN SelectSeq(rest, before) \o <<last>> \o SelectSeq(rest, after)

\* lines 226-227
TrainWindow(values) ==
    LET train_size == IF Len(values) < 12 THEN Len(values) ELSE 12
    IN SubSeq(values, Len(values) - train_size + 1, Len(values))

\* line 232
seasonal_periods == 4

\* the fit that gives whatever the call number happens to give
SeasonalFitVaries(train, numeric) ==
    numeric /\ Len(train) >= 2 * seasonal_periods /\ Len(history) % 2 = 1

\* lines 230-237: the seasonal model needs numbers and two full seasonal cycles;
\* given those, whether the fit comes through is the library's matter
SeasonalFit(train, numeric) ==
    numeric /\ Len(train) >= 2 * seasonal_periods /\ fit_converges

\* a fallback that repeats 0 whatever the window holds
FallbackMeanZero(train) ==
    IF \A i \in 1..Len(train) : train[i].t = "num"
    THEN Ok(Rat(0, 1))
    ELSE Fail(Exc("TypeError", "unsupported_operand", <<>>))

\* line 246: float(np.mean(train)); text has no mean
FallbackMean(train) ==
    IF \A i \in 1..Len(train) : train[i].t = "num"
    THEN Ok(Rat(SumSeq(Numbers(train)), Len(train)))
    ELSE Fail(Exc("TypeError", "unsupported_operand", <<>>))

\* lines 215-252
Forecast(frame, p) ==
    LET cols == ForecastColumns(frame, p)
        df_sorted == SortRows(frame.rows, p.m.time_column.s)
        values == ColumnCells(df_sorted, p.m.target_column.s)
        train == TrainWindow(values)
        numeric == frame.dtypes[p.m.target_column.s] = "int64"
        last_actual == Rat(values[Len(values)].n, 1)
    IN IF ~cols.ok THEN cols
       ELSE IF SeasonalFit(train, numeric)
       THEN Ok([forecast_values |->
                    [k \in 1..3 |-> [t |-> "seasonal", step |-> k, train |-> train]],
                last_actual |-> last_actual,
                target_column |-> p.m.target_column])
       ELSE IF ~FallbackMean(train).ok THEN FallbackMean(train)
       ELSE Ok([forecast_values |-> [k \in 1..3 |-> FallbackMean(train).value],
                last_actual |-> last_actual,
                target_column |-> p.m.target_column,
                method |-> "simple_average"])

\* lines 145-255
_execute_operation(frame, p) ==
    IF ~HasKey(p, "operation") THEN Fail(Exc("KeyError", "key", <<S("operation")>>))
    ELSE IF OperationIs(p, {"mean", "sum", "count", "min", "max", "std"})
    THEN Aggregation(frame, p)
    ELSE IF OperationIs(p, {"correlation"}) THEN Correlation(frame, p)
    ELSE IF OperationIs(p, {"regression"}) THEN Regression(frame, p)
    ELSE IF OperationIs(p, {"forecast"}) THEN Forecast(frame, p)
    ELSE Fail(Exc("ValueError", "unknown_operation", <<p.m.operation>>))

(***************************************************************************)
(* State before any call                                                   *)
(***************************************************************************)
NoFrame == [loaded |-> FALSE]
NoValidation == [pending |-> TRUE]
NoResponse == [pending |-> TRUE]

Idle ==
    /\ validation = NoValidation
    /\ df = NoFrame
    /\ column_info = <<>>
    /\ filtered = NoFrame
    /\ opresult = NoResponse
    /\ response = NoResponse
    /\ reply = NoResponse
    /\ analyses = <<>>
    /\ calls = <<>>
    /\ history = <<>>
    /\ sessions = <<>>
    /\ requests = <<>>
    /\ upload_dir = {}
    /\ datasets = <<>>

(***************************************************************************)
(* validate_plan applied to a plan                                         *)
(***************************************************************************)
InitValidate ==
    /\ pc = "validate"
    /\ plan \in ValidatorPlans
    /\ csvfile = Unreadable
    /\ fit_converges = TRUE
    /\ Idle

ValidateCall ==
    /\ pc = "validate"
    /\ validation' = validate_plan(plan)
    /\ calls' = Append(calls, "validate")
    /\ pc' = "validated"
    /\ UNCHANGED <<history, fit_converges, sessions, requests, upload_dir, datasets, plan, csvfile, df, column_info, filtered, opresult, response, reply, analyses>>

SpecValidate == InitValidate /\ [][ValidateCall]_vars

(***************************************************************************)
(* Properties of validate_plan                                             *)
(***************************************************************************)
Returned == pc = "validated" /\ ~validation.raised

ErrorsWhere(test(_)) == SelectSeq(validation.errors, test)

IsScalar(v) == v.t \in {"str", "num", "bool", "null"}

\* the rules of the plan schema, stated on the plan alone
OperationViolated(p) == ~(HasKey(p, "operation") /\ InStrSet(p.m.operation, VALID_OPERATIONS))

ColumnDefect(f) == ~(HasKey(f, "column") /\ IsStr(f.m.column))
OperatorDefect(f) == ~(HasKey(f, "operator") /\ InStrSet(f.m.operator, VALID_OPERATORS))
ValueDefect(f) == ~(HasKey(f, "value") /\ IsScalar(f.m.value))

\* how many itemized errors a filter calls for
FilterDefects(f) ==
    IF ~IsDict(f) THEN 1
    ELSE (IF ColumnDefect(f) THEN 1 ELSE 0) + (IF OperatorDefect(f) THEN 1 ELSE 0)
         + (IF ValueDefect(f) THEN 1 ELSE 0)

FiltersViolated(p) ==
    /\ HasKey(p, "filters")
    /\ \/ ~IsList(p.m.filters)
       \/ \E i \in 1..Len(p.m.filters.items) : FilterDefects(p.m.filters.items[i]) > 0

GroupByViolated(p) ==
    /\ HasKey(p, "group_by")
    /\ \/ ~IsList(p.m.group_by)
       \/ \E i \in 1..Len(p.m.group_by.items) : ~IsStr(p.m.group_by.items[i])

ChartTypeViolated(p) ==
    /\ HasKey(p, "chart_type")
    /\ p.m.chart_type # Null
    /\ ~InStrSet(p.m.chart_type, VALID_CHART_TYPES)

ClarificationViolated(p) ==
    Truthy(Get(p, "requires_clarification")) /\ ~Truthy(Get(p, "clarification_question"))

MissingAxes(p) == {a \in {"x_axis", "y_axis"} : ~Truthy(Get(p, a))}

OperationSpecificViolated(p) ==
    \/ OperationIs(p, {"correlation", "regression"}) /\ MissingAxes(p) # {}
    \/ OperationIs(p, {"forecast"})
       /\ ~(Truthy(Get(p, "time_column")) /\ Truthy(Get(p, "target_column")))

Violated(p, rule) ==
    CASE rule = "operation" -> OperationViolated(p)
      [] rule = "filters" -> FiltersViolated(p)
      [] rule = "group_by" -> GroupByViolated(p)
      [] rule = "chart_type" -> ChartTypeViolated(p)
      [] rule = "clarification" -> ClarificationViolated(p)
      [] OTHER -> OperationSpecificViolated(p)

Rules ==
    {"operation", "filters", "group_by", "chart_type", "clarification", "operation_specific"}

\* C2: validate_plan is total: whatever the plan, it returns a verdict and never
\* raises.
C2_ValidateNeverRaises == pc = "validated" => ~validation.raised

\* C3: for a correlation or regression plan the verdict holds exactly one axis
\* error per missing (absent or empty) axis: one for one axis, two for both.
C3_OneErrorPerMissingAxis ==
    Returned /\ IsDict(plan) /\ OperationIs(plan, {"correlation", "regression"}) =>
        LET axis(e) == e.code = "requires_both_axes"
        IN Len(ErrorsWhere(axis)) = Cardinality(MissingAxes(plan))

\* C4: validation does not short-circuit: the errors hold an error for every
\* violated rule, whatever other rules are violated, and an unknown operation
\* adds exactly one error without suppressing the other checks.
C4_NoShortCircuit ==
    pc = "validated" /\ IsDict(plan) =>
        /\ ~validation.raised
        /\ \A rule \in Rules :
              Violated(plan, rule) => \E i \in 1..Len(validation.errors) :
                                          validation.errors[i].rule = rule
        /\ OperationViolated(plan) =>
              LET operation(e) == e.rule = "operation"
              IN Len(ErrorsWhere(operation)) = 1

\* C5: a plan whose operation is absent or outside the enumerated set gets
\* valid = false with at least one error.
C5_BadOperationRejected ==
    pc = "validated" /\ IsDict(plan) /\ OperationViolated(plan) =>
        /\ ~validation.raised
        /\ ~validation.valid
        /\ Len(validation.errors) >= 1

SimpleAggregations == {"mean", "sum", "std", "min", "max"}

\* C6: in every verdict valid is true exactly when errors is empty, whatever the
\* warnings; a simple aggregation without target_column gets a warning and no
\* error for it, and a plan that violates no rule is valid with its warnings.
C6_WarningsNeverBlock ==
    Returned =>
        /\ validation.valid <=> (Len(validation.errors) = 0)
        /\ OperationIs(plan, SimpleAggregations) /\ ~Truthy(Get(plan, "target_column")) =>
              /\ \E i \in 1..Len(validation.warnings) :
                    validation.warnings[i].code = "target_column_recommended"
              /\ \A i \in 1..Len(validation.errors) :
                    validation.errors[i].rule # "operation_specific"
        /\ (\A rule \in Rules : ~Violated(plan, rule)) => validation.valid

\* a valid verdict that carries a warning
C6_Witness == Returned /\ validation.valid /\ Len(validation.warnings) > 0

\* C7: a filter list gives one separate error naming index i for each defect of
\* the filter at index i (column, operator, value missing or malformed, the value
\* not a scalar), none for a well-formed filter; filters that is no list gives one.
C7_ItemizedFilterErrors ==
    Returned /\ IsDict(plan) /\ HasKey(plan, "filters") =>
        IF ~IsList(plan.m.filters)
        THEN LET filters(e) == e.rule = "filters"
             IN Len(ErrorsWhere(filters)) = 1
        ELSE \A i \in 1..Len(plan.m.filters.items) :
                LET at(e) == e.rule = "filters" /\ e.index = i - 1
                    found == ErrorsWhere(at)
                IN /\ Len(found) = FilterDefects(plan.m.filters.items[i])
                   /\ \A j, k \in 1..Len(found) : j # k => found[j].code # found[k].code

(***************************************************************************)
(* ExecutionEngine.execute_plan, step by step                              *)
(***************************************************************************)
NoDataLoaded == [success |-> FALSE, error |-> Exc("", "no_csv_data_loaded", <<>>)]
EmptyDataset == [success |-> FALSE, error |-> Exc("", "filters_resulted_in_empty_dataset", <<>>)]

\* the exception leaves execute_plan
ExecutionRaised(e) == [raised |-> TRUE, exc |-> e]

\* lines 101-105
ExecutionFailed(e) == [success |-> FALSE, error |-> e]

ChartImage == [t |-> "str", s |-> "data:image/png;base64"]

\* a frame never taken for empty
IsEmptyUnchecked(frame) == FALSE

\* line 78
IsEmpty(frame) == Len(frame.rows) = 0

\* the frame handed to _apply_filters is itself narrowed
FrameNarrowedInPlace(frame, outcome) == IF outcome.ok THEN outcome.value ELSE frame

\* line 109: the filters narrow a copy, so the frame handed in stays as it was
FrameAfterFilters(frame, outcome) == frame

\* lines 68-72
ExecBegin ==
    /\ pc = "execute"
    /\ IF df = NoFrame
       THEN response' = NoDataLoaded /\ pc' = "returned"
       ELSE response' = response /\ pc' = "filtering"
    /\ UNCHANGED <<history, fit_converges, sessions, requests, upload_dir, datasets, plan, csvfile, validation, df, column_info, filtered, opresult, reply, analyses, calls>>

\* lines 74-82
ExecFilter ==
    /\ pc = "filtering"
    /\ IF ~IsDict(plan)
       THEN /\ response' = ExecutionFailed(Exc("AttributeError", "no_attribute_get", <<>>))
            /\ pc' = "returned"
            /\ UNCHANGED <<df, filtered, calls>>
       ELSE LET filters == IF HasKey(plan, "filters") THEN plan.m.filters ELSE L(<<>>)
                r == _apply_filters(df, filters)
            IN /\ calls' = Append(calls, "filter")
               /\ df' = FrameAfterFilters(df, r)
               /\ IF ~r.ok
                  THEN response' = ExecutionFailed(r.error) /\ pc' = "returned"
                                   /\ filtered' = filtered
                  ELSE /\ filtered' = r.value
                       /\ IF IsEmpty(r.value)
                          THEN response' = EmptyDataset /\ pc' = "returned"
                          ELSE response' = response /\ pc' = "dispatching"
    /\ UNCHANGED <<history, fit_converges, sessions, requests, upload_dir, datasets, plan, csvfile, validation, column_info, opresult, reply, analyses>>

\* lines 84-86 and 101-105
ExecDispatch ==
    /\ pc = "dispatching"
    /\ IF ~HasKey(plan, "operation")
       THEN /\ response' = ExecutionFailed(Exc("KeyError", "key", <<S("operation")>>))
            /\ pc' = "returned"
            /\ UNCHANGED <<opresult, calls>>
       ELSE LET r == _execute_operation(filtered, plan)
            IN /\ calls' = Append(calls, "dispatch")
               /\ IF r.ok
                  THEN opresult' = r.value /\ pc' = "charting" /\ response' = response
                  ELSE opresult' = opresult /\ pc' = "returned"
                                   /\ response' = ExecutionFailed(r.error)
    /\ UNCHANGED <<history, fit_converges, sessions, requests, upload_dir, datasets, plan, csvfile, validation, df, column_info, filtered, reply, analyses>>

\* lines 266-305: the columns the renderer reads off the frame for the chart type
ChartReads(p) ==
    LET chart_type == Get(p, "chart_type")
        x_col == Get(p, "x_axis")
        y_axis == Get(p, "y_axis")
        target_col == Get(p, "target_column")
        y_col == IF Truthy(y_axis) THEN y_axis ELSE target_col
    IN CASE chart_type \in {S("line"), S("bar")} ->
                IF Truthy(x_col) /\ Truthy(y_col) THEN <<x_col, y_col>> ELSE <<>>
         [] chart_type = S("scatter") ->
                IF Truthy(x_col) /\ Truthy(y_axis) THEN <<x_col, y_axis>> ELSE <<>>
         [] chart_type \in {S("histogram"), S("box")} ->
                IF Truthy(target_col) THEN <<target_col>> ELSE <<>>
         [] OTHER -> <<>>

\* line 279: the bar chart of a grouped plan takes the mean of y_col, which must be numeric
ChartMeanOfText(frame, p) ==
    /\ Get(p, "chart_type") = S("bar")
    /\ Truthy(Get(p, "group_by"))
    /\ Len(ChartReads(p)) = 2
    /\ frame.dtypes[ChartReads(p)[2].s] = "object"

\* an exception of the renderer that leaves _generate_chart
ChartFailureRaised(e) == Fail(e)

\* lines 326-328: whatever the renderer raises is caught and None returned
ChartFailure(e) == Ok(Null)

\* lines 257-328; drawn tells whether matplotlib drew and encoded the figure
_generate_chart(frame, p, drawn) ==
    LET chart_type == Get(p, "chart_type")
        reads == ChartReads(p)
    IN IF ~Truthy(chart_type) THEN Ok(Null)
       ELSE IF \E i \in 1..Len(reads) : ColumnMissing(frame, reads[i])
       THEN ChartFailure(Exc("KeyError", "key", reads))
       ELSE IF ChartMeanOfText(frame, p)
       THEN ChartFailure(Exc("TypeError", "could_not_convert", <<>>))
       ELSE IF ~IsStr(chart_type)
       THEN ChartFailure(Exc("AttributeError", "no_attribute_title", <<>>))
       ELSE IF ~drawn THEN ChartFailure(Exc("RuntimeError", "render", <<>>))
       ELSE Ok(ChartImage)

\* lines 88-99, and 101-105 for an exception that leaves _generate_chart
ExecChart ==
    /\ pc = "charting"
    /\ \E drawn \in BOOLEAN :
          LET requested == Truthy(Get(plan, "chart_type"))
              chart_data == IF requested THEN _generate_chart(filtered, plan, drawn)
                            ELSE Ok(Null)
          IN /\ response' = IF chart_data.ok
                             THEN [success |-> TRUE, operation |-> plan.m.operation,
                                   result |-> opresult, chart |-> chart_data.value,
                                   filtered_row_count |-> Len(filtered.rows)]
                             ELSE ExecutionFailed(chart_data.error)
             /\ calls' = IF requested THEN Append(calls, "chart") ELSE calls
    /\ pc' = "returned"
    /\ UNCHANGED <<history, fit_converges, sessions, requests, upload_dir, datasets, plan, csvfile, validation, df, column_info, filtered, opresult, reply, analyses>>

ExecutePlan == ExecBegin \/ ExecFilter \/ ExecDispatch \/ ExecChart

\* lines 58-105 as one call; drawn tells whether matplotlib drew the figure
execute_plan(frame, p, drawn) ==
    IF frame = NoFrame THEN NoDataLoaded
    ELSE IF ~IsDict(p) THEN ExecutionFailed(Exc("AttributeError", "no_attribute_get", <<>>))
    ELSE LET filters == IF HasKey(p, "filters") THEN p.m.filters ELSE L(<<>>)
             filtered_df == _apply_filters(frame, filters)
             result == _execute_operation(filtered_df.value, p)
             chart_data == IF Truthy(Get(p, "chart_type"))
                           THEN _generate_chart(filtered_df.value, p, drawn)
                           ELSE Ok(Null)
         IN IF ~filtered_df.ok THEN ExecutionFailed(filtered_df.error)
            ELSE IF IsEmpty(filtered_df.value) THEN EmptyDataset
            ELSE IF ~result.ok THEN ExecutionFailed(result.error)
            ELSE IF ~chart_data.ok THEN ExecutionFailed(chart_data.error)
            ELSE [success |-> TRUE, operation |-> p.m.operation, result |-> result.value,
                  chart |-> chart_data.value,
                  filtered_row_count |-> Len(filtered_df.value.rows)]

(***************************************************************************)
(* An engine that loads a file and executes a plan                         *)
(***************************************************************************)
EqFilter(column, value) == MkFilter(S(column), S("=="), value)

\* filters that pass validation, whatever the frame then makes of them
EngineFilters ==
    { EqFilter("region", S("N")),
      MkFilter(S("region"), S("!="), S("S")),
      EqFilter("sales", N(20)),
      MkFilter(S("sales"), S(">"), S("10")),
      EqFilter("sales", S("abc")),
      EqFilter("price", N(1)),
      MkFilter(S("region"), S("<"), S("S")) }

EnginePlans ==
    { MkPlan(S(op), tc, L(fs), Absent, Absent, Absent, Absent, Absent, Absent, Absent) :
        op \in {"count", "sum"}, tc \in {Absent, S("sales")},
        fs \in SeqsUpTo(EngineFilters, MaxFilters) }

InitEngine ==
    /\ pc = "load"
    /\ plan \in EnginePlans
    /\ csvfile \in Files
    /\ fit_converges = TRUE
    /\ Idle

\* engine.load_csv(file_path)
EngineLoad ==
    /\ pc = "load"
    /\ LET r == load_csv(df, column_info, csvfile)
       IN df' = r.df /\ column_info' = r.column_info
    /\ calls' = Append(calls, "load")
    /\ pc' = "execute"
    /\ UNCHANGED <<history, fit_converges, sessions, requests, upload_dir, datasets, plan, csvfile, validation, filtered, opresult, response, reply, analyses>>

NextEngine == EngineLoad \/ ExecBegin \/ ExecFilter \/ ExecDispatch \/ ExecChart

SpecEngine == InitEngine /\ [][NextEngine]_vars

(***************************************************************************)
(* An engine that loads a monthly series and executes one operation on it  *)
(***************************************************************************)
SeriesColumns == <<"month", "region", "sales">>

SeriesRowTexts ==
    { [month |-> "10", region |-> "N", sales |-> "10"],
      [month |-> "11", region |-> "N", sales |-> "20"],
      [month |-> "11", region |-> "S", sales |-> "12"],
      [month |-> "10", region |-> "S", sales |-> "unknown"] }

SeriesFile(rows) == [readable |-> TRUE, header |-> SeriesColumns, rows |-> rows]

\* two seasonal cycles of months, the regions taking turns
LongSeries ==
    SeriesFile(
      << [month |-> "10", region |-> "N", sales |-> "10"],
         [month |-> "11", region |-> "S", sales |-> "12"],
         [month |-> "12", region |-> "N", sales |-> "14"],
         [month |-> "13", region |-> "S", sales |-> "16"],
         [month |-> "14", region |-> "N", sales |-> "11"],
         [month |-> "15", region |-> "S", sales |-> "13"],
         [month |-> "16", region |-> "N", sales |-> "15"],
         [month |-> "17", region |-> "S", sales |-> "17"] >>)

SeriesFiles ==
    {LongSeries} \cup {SeriesFile(rows) : rows \in SeqsUpTo(SeriesRowTexts, MaxRows)}

\* a plan of the given operation on the whole frame, without chart
OpPlan(op, tc, gb, tm, x, y) ==
    MkPlan(S(op), tc, L(<<>>), gb, tm, x, y, Absent, Absent, Absent)

\* a count with a chart
ChartPlan(tc, gb, x, y, ct) ==
    MkPlan(S("count"), tc, L(<<>>), gb, Absent, x, y, ct, Absent, Absent)

AggregationPlans ==
    { OpPlan(op, tc, gb, Absent, Absent, Absent) :
        op \in {"mean", "sum", "count", "min", "max", "std"},
        tc \in {Absent, Null, S("sales"), S("price")},
        gb \in {Absent, L(<<>>), L(<<S("region")>>), L(<<S("month"), S("region")>>)} }

AxisPlans ==
    { OpPlan(op, Absent, Absent, Absent, x, y) :
        op \in {"regression", "correlation"},
        x \in {S("month"), S("sales"), S("price")},
        y \in {Absent, S("sales")} }

ForecastPlans ==
    { OpPlan("forecast", tc, Absent, tm, Absent, Absent) :
        tc \in {S("sales"), S("region"), S("price")},
        tm \in {Absent, S("month"), S("region")} }

\* a regression on the rows of one month, or of one region
FilteredAxisPlans ==
    { MkPlan(S("regression"), Absent, L(<<f>>), Absent, Absent, S("month"), S("sales"),
             Absent, Absent, Absent) :
        f \in {EqFilter("month", N(11)), EqFilter("region", S("N"))} }

ChartPlans ==
    { ChartPlan(S("sales"), Absent, S("region"), Absent, S("bar")),
      ChartPlan(S("sales"), L(<<S("region")>>), S("region"), Absent, S("bar")),
      ChartPlan(Absent, Absent, S("price"), S("sales"), S("scatter")),
      ChartPlan(Absent, Absent, S("month"), S("sales"), S("line")),
      ChartPlan(S("sales"), Absent, Absent, Absent, S("histogram")),
      ChartPlan(S("price"), Absent, Absent, Absent, S("box")),
      ChartPlan(Absent, Absent, Absent, Absent, S("heatmap")),
      ChartPlan(Absent, Absent, Absent, Absent, S("pie")),
      ChartPlan(Absent, Absent, Absent, Absent, L(<<S("bar")>>)),
      MkPlan(S("mode"), Absent, L(<<>>), Absent, Absent, Absent, Absent, S("bar"),
             Absent, Absent) }

OpPlans == AggregationPlans \cup AxisPlans \cup ForecastPlans \cup FilteredAxisPlans
           \cup ChartPlans

InitOps ==
    /\ pc = "load"
    /\ plan \in OpPlans
    /\ csvfile \in SeriesFiles
    /\ fit_converges \in (IF plan \in ForecastPlans THEN BOOLEAN ELSE {TRUE})
    /\ Idle

SpecOps == InitOps /\ [][NextEngine]_vars

(***************************************************************************)
(* The /analytics/execute handler                                          *)
(***************************************************************************)
NoDataset == [exists |-> FALSE]

\* filters of a request: each one a FilterSchema
RequestFilterLists ==
    { <<>>,
      <<EqFilter("region", S("N"))>>,
      <<EqFilter("price", N(1))>>,
      <<EqFilter("sales", S("abc"))>>,
      <<EqFilter("region", S("N")), EqFilter("sales", N(20))>> }

\* what request.plan.dict() gives: every field present, None or empty by default
RequestPlan(op, tc, fs, x, ct, cl) ==
    MkPlan(S(op), tc, L(fs), L(<<>>), Null, x, Null, ct, cl[1], cl[2])

RequestPlans ==
    { RequestPlan("count", Null, fs, Null, ct, cl) :
        fs \in RequestFilterLists, ct \in {Null, S("bar")},
        cl \in {<<B(FALSE), Null>>, <<B(TRUE), Null>>, <<B(TRUE), S("Which region?")>>} }
    \cup
    { RequestPlan("sum", tc, fs, Null, Null, <<B(FALSE), Null>>) :
        tc \in {Null, S("sales")}, fs \in RequestFilterLists }
    \cup
    { RequestPlan("correlation", Null, fs, x, Null, <<B(FALSE), Null>>) :
        x \in {Null, S("sales")}, fs \in RequestFilterLists }

HttpError(status, detail) == [status |-> status, detail |-> detail]

\* the plan is let through although validation found errors
ValidationPassedAlways(v) == TRUE

\* line 150
ValidationPassed(v) == v.valid

Init ==
    /\ pc = "h_lookup"
    /\ plan \in RequestPlans
    /\ csvfile \in Files \cup {NoDataset}
    /\ fit_converges = TRUE
    /\ Idle

\* lines 134-144
HandlerLookup ==
    /\ pc = "h_lookup"
    /\ IF csvfile = NoDataset
       THEN reply' = HttpError(404, "Dataset not found") /\ pc' = "done"
       ELSE reply' = reply /\ pc' = "h_validate"
    /\ UNCHANGED <<history, fit_converges, sessions, requests, upload_dir, datasets, plan, csvfile, validation, df, column_info, filtered, opresult, response,
                   analyses, calls>>

\* lines 146-157; an exception of validate_plan leaves the handler as a 500
HandlerValidate ==
    /\ pc = "h_validate"
    /\ validation' = validate_plan(plan)
    /\ calls' = Append(calls, "validate")
    /\ IF validation'.raised
       THEN reply' = HttpError(500, validation'.exc) /\ pc' = "done"
       ELSE IF ~ValidationPassed(validation')
       THEN /\ reply' = HttpError(400, [error |-> "Plan validation failed",
                                        validation_errors |-> validation'.errors])
            /\ pc' = "done"
       ELSE reply' = reply /\ pc' = "h_clarify"
    /\ UNCHANGED <<history, fit_converges, sessions, requests, upload_dir, datasets, plan, csvfile, df, column_info, filtered, opresult, response, analyses>>

\* the plan's request for clarification passed over
ClarificationNeverRequired(p) == FALSE

\* line 160: request.plan.requires_clarification
ClarificationRequired(p) == Truthy(p.m.requires_clarification)

\* lines 159-165
HandlerClarify ==
    /\ pc = "h_clarify"
    /\ IF ClarificationRequired(plan)
       THEN /\ reply' = [status |-> 200,
                         body |-> [success |-> FALSE, requires_clarification |-> TRUE,
                                   clarification_question |-> plan.m.clarification_question]]
            /\ pc' = "done"
       ELSE reply' = reply /\ pc' = "h_load"
    /\ UNCHANGED <<history, fit_converges, sessions, requests, upload_dir, datasets, plan, csvfile, validation, df, column_info, filtered, opresult, response,
                   analyses, calls>>

\* lines 167-175: a fresh engine loads the dataset's file
HandlerLoad ==
    /\ pc = "h_load"
    /\ LET r == load_csv(NoFrame, <<>>, csvfile)
       IN /\ df' = r.df
          /\ column_info' = r.column_info
          /\ IF r.ret.success
             THEN reply' = reply /\ pc' = "execute"
             ELSE reply' = HttpError(500, "Failed to load CSV") /\ pc' = "done"
    /\ calls' = Append(calls, "load")
    /\ UNCHANGED <<history, fit_converges, sessions, requests, upload_dir, datasets, plan, csvfile, validation, filtered, opresult, response, analyses>>

\* lines 181-198
HandlerLog ==
    /\ pc = "returned"
    /\ analyses' = Append(analyses,
          [execution_plan |-> plan,
           result |-> IF response.success THEN response.result ELSE Null,
           success |-> response.success])
    /\ reply' = [status |-> 200, body |-> response]
    /\ pc' = "done"
    /\ UNCHANGED <<history, fit_converges, sessions, requests, upload_dir, datasets, plan, csvfile, validation, df, column_info, filtered, opresult, response, calls>>

Next ==
    \/ HandlerLookup
    \/ HandlerValidate
    \/ HandlerClarify
    \/ HandlerLoad
    \/ ExecutePlan
    \/ HandlerLog

Spec == Init /\ [][Next]_vars

(***************************************************************************)
(* Properties of the handler                                               *)
(***************************************************************************)
Invoked(component) == \E i \in 1..Len(calls) : calls[i] = component

Validated == validation # NoValidation

\* C1: every execute call validates the plan first: the filter engine and the
\* dispatcher are invoked only after validate_plan returned valid = true for the
\* plan, and a plan with valid = false ends rejected, carrying the validation
\* errors, with no filtering or dispatch done.
C1_ValidatedBeforeExecution ==
    /\ \A i \in 1..Len(calls) :
          calls[i] \in {"load", "filter", "dispatch", "chart"} =>
              /\ \E j \in 1..(i - 1) : calls[j] = "validate"
              /\ Validated /\ ~validation.raised /\ validation.valid
    /\ Validated /\ ~validation.raised /\ ~validation.valid =>
          /\ pc = "done"
          /\ reply.status = 400
          /\ reply.detail.validation_errors = validation.errors
          /\ Len(validation.errors) > 0
          /\ ~Invoked("filter") /\ ~Invoked("dispatch")
          /\ response = NoResponse

\* a plan with filters that validation rejected
C1_Witness ==
    /\ pc = "done"
    /\ Validated
    /\ ~validation.valid
    /\ Len(plan.m.filters.items) > 0
    /\ csvfile # NoDataset
    /\ csvfile.readable

(***************************************************************************)
(* Properties of execute_plan                                              *)
(***************************************************************************)
PlanFilters == plan.m.filters.items

\* every filter of the plan was applied and none raised
FiltersApplied == pc \in {"dispatching", "charting", "returned"} /\ filtered # NoFrame

Dispatched == \E i \in 1..Len(calls) : calls[i] = "dispatch"

\* the value a filter compares the cells of its column with
Comparand(frame, f) ==
    IF frame.dtypes[f.m.column.s] = "int64" /\ FloatOf(f.m.value).ok
    THEN FloatOf(f.m.value).value ELSE f.m.value

\* the row passes filter f of a list that applied without error
Satisfies(frame, row, f) ==
    /\ f.m.column.s \in ColumnSet(frame)
    /\ Compare(row[f.m.column.s], f.m.operator.s, Comparand(frame, f))

SatisfiesAll(frame, row, fs) == \A i \in 1..Len(fs) : Satisfies(frame, row, fs[i])

\* C8: when every filter applies without error and no row of the loaded frame
\* satisfies all of them, execute_plan returns the empty-dataset failure and the
\* dispatcher is never invoked on the empty frame.
C8_EmptyResultNeverDispatched ==
    /\ Dispatched => Len(filtered.rows) > 0
    /\ FiltersApplied /\ pc = "returned"
       /\ (\A i \in 1..Len(df.rows) : ~SatisfiesAll(df, df.rows[i], PlanFilters)) =>
          /\ response = EmptyDataset
          /\ ~Dispatched
          /\ opresult = NoResponse

\* a sum without target_column whose filters matched none of the frame's rows
C8_Witness ==
    /\ pc = "returned"
    /\ response = EmptyDataset
    /\ Len(df.rows) > 0
    /\ Len(PlanFilters) > 0
    /\ plan.m.operation = S("sum")
    /\ ~HasKey(plan, "target_column")

\* the message of the error quotes the column name
Mentions(error, name) == \E i \in 1..Len(error.quoted) : error.quoted[i] = S(name)

\* filter i names a column the loaded frame lacks
ReferencesAbsentColumn(i) == ColumnMissing(df, PlanFilters[i].m.column)

\* every filter before filter i applies without error
EarlierFiltersApply(i) == ApplyFilterList(df, SubSeq(PlanFilters, 1, i - 1)).ok

\* C9, as stated: if any filter references a column the frame lacks, execute_plan
\* returns success = false with an error naming that column, whatever the other
\* filters do.
C9_AbsentColumnAlwaysNamed ==
    pc = "returned" /\ df # NoFrame =>
        \A i \in 1..Len(PlanFilters) :
            ReferencesAbsentColumn(i) =>
                /\ ~response.success
                /\ Mentions(response.error, PlanFilters[i].m.column.s)

\* C9, amended: such a plan always ends with success = false, and the error names
\* the column of the first such filter when every filter before it applied
\* without error, one that matched zero rows included.
C9_AbsentColumnNamedWhenFirstToFail ==
    pc = "returned" /\ df # NoFrame =>
        \A i \in 1..Len(PlanFilters) :
            ReferencesAbsentColumn(i) =>
                /\ ~response.success
                /\ EarlierFiltersApply(i) =>
                      /\ response.error.msg = "column_not_found"
                      /\ Mentions(response.error, PlanFilters[i].m.column.s)

\* the absent column is named although an earlier filter left no row
C9_Witness ==
    /\ pc = "returned"
    /\ df # NoFrame
    /\ Len(df.rows) > 0
    /\ Len(PlanFilters) = 2
    /\ ~ReferencesAbsentColumn(1)
    /\ ReferencesAbsentColumn(2)
    /\ EarlierFiltersApply(2)
    /\ Len(ApplyFilterList(df, SubSeq(PlanFilters, 1, 1)).value.rows) = 0
    /\ ~response.success
    /\ response.error.msg = "column_not_found"

EqualityFilter(f) == f.m.operator.s \in {"==", "!="}

\* C10: when all filters apply without error the filtered frame holds exactly
\* the rows of the loaded frame that satisfy every filter, in their original
\* order, and two ==/!= filters on different columns give the same rows in
\* either order.
C10_ConjunctiveComposition ==
    FiltersApplied =>
        /\ LET all(row) == SatisfiesAll(df, row, PlanFilters)
           IN filtered.rows = SelectSeq(df.rows, all)
        /\ Len(PlanFilters) = 2
           /\ EqualityFilter(PlanFilters[1]) /\ EqualityFilter(PlanFilters[2])
           /\ PlanFilters[1].m.column # PlanFilters[2].m.column =>
              LET swapped == _apply_filters(df, L(<<PlanFilters[2], PlanFilters[1]>>))
              IN swapped.ok /\ swapped.value.rows = filtered.rows

\* two equality filters on different columns that keep some rows and drop others
C10_Witness ==
    /\ FiltersApplied
    /\ Len(PlanFilters) = 2
    /\ EqualityFilter(PlanFilters[1]) /\ EqualityFilter(PlanFilters[2])
    /\ PlanFilters[1].m.column # PlanFilters[2].m.column
    /\ Len(filtered.rows) > 0
    /\ Len(filtered.rows) < Len(df.rows)

(***************************************************************************)
(* Properties of the chart step                                            *)
(***************************************************************************)
\* position of the first call of a component among the calls made, 0 when not called
FirstCall(component) ==
    IF Invoked(component)
    THEN CHOOSE i \in 1..Len(calls) :
            calls[i] = component /\ \A j \in 1..(i - 1) : calls[j] # component
    ELSE 0

\* the plan asks for a chart over a column that the filtered frame does not have
ChartOverAbsentColumn ==
    /\ filtered # NoFrame
    /\ \/ /\ Get(plan, "chart_type") \in {S("scatter"), S("line"), S("bar")}
          /\ IsStr(Get(plan, "x_axis")) /\ Get(plan, "x_axis").s \notin ColumnSet(filtered)
          /\ Truthy(Get(plan, "y_axis")) \/ Truthy(Get(plan, "target_column"))
          /\ Get(plan, "chart_type") = S("scatter") => Truthy(Get(plan, "y_axis"))
       \/ /\ Get(plan, "chart_type") \in {S("histogram"), S("box")}
          /\ IsStr(Get(plan, "target_column"))
          /\ Get(plan, "target_column").s \notin ColumnSet(filtered)

\* C11: the chart is rendered only after the operation gave its result, and
\* whatever the renderer does the outcome stays success = true with the same
\* operation result and filtered_row_count; a renderer that fails yields
\* chart = null, never success = false.
C11_ChartNeverFailsExecution ==
    /\ Invoked("chart") =>
          /\ Invoked("dispatch") /\ FirstCall("dispatch") < FirstCall("chart")
          /\ opresult # NoResponse
    /\ pc = "returned" /\ Invoked("chart") =>
          /\ "success" \in DOMAIN response /\ response.success
          /\ response.result = opresult
          /\ response.result = _execute_operation(filtered, plan).value
          /\ response.filtered_row_count = Len(filtered.rows)
          /\ response.chart \in {Null, ChartImage}
          /\ ChartOverAbsentColumn => response.chart = Null

\* a scatter chart over a column the frame lacks: the count is returned without chart
C11_Witness ==
    /\ pc = "returned"
    /\ Invoked("chart")
    /\ ChartOverAbsentColumn
    /\ Get(plan, "chart_type") = S("scatter")
    /\ response.success
    /\ response.chart = Null
    /\ response.result = Rat(Len(df.rows), 1)

(***************************************************************************)
(* One engine used for several calls, one after the other                  *)
(***************************************************************************)
MaxCalls == 3

ReuseFiles ==
    { Unreadable,
      CsvFile(<<[region |-> "N", sales |-> "10"], [region |-> "S", sales |-> "20"]>>),
      LongSeries }

\* a plan with an operation, a target column and filters, and nothing else
Plain(op, tc, fs) == MkPlan(op, tc, fs, Absent, Absent, Absent, Absent, Absent, Absent, Absent)

\* plans as a caller of execute_plan may hand them over, validated or not
ReusePlans ==
    { Plain(S("count"), Absent, L(<<>>)),
      Plain(S("sum"), S("sales"), L(<<EqFilter("region", S("N"))>>)),
      Plain(S("sum"), Absent, L(<<>>)),
      Plain(S("count"), Absent, L(<<EqFilter("price", N(1))>>)),
      Plain(S("count"), Absent, L(<<EqFilter("sales", S("abc"))>>)),
      Plain(S("count"), Absent, L(<<EqFilter("region", S("abc"))>>)),
      Plain(S("count"), Absent, L(<<MkFilter(S("region"), S("=="), Absent)>>)),
      Plain(S("count"), Absent, N(5)),
      Plain(Absent, Absent, L(<<>>)),
      Plain(S("mode"), Absent, Absent),
      Null,
      MkPlan(S("mean"), S("sales"), Absent, L(<<S("region")>>), Absent, S("region"),
             Absent, S("bar"), Absent, Absent),
      OpPlan("forecast", S("sales"), Absent, S("region"), Absent, Absent) }

InitReuse ==
    /\ pc = "idle"
    /\ plan = Null
    /\ csvfile = NoDataset
    /\ fit_converges \in BOOLEAN
    /\ Idle

\* engine.load_csv(file_path), lines 30-56
ReuseLoad ==
    /\ pc = "idle"
    /\ Len(history) < MaxCalls
    /\ \E f \in ReuseFiles :
          LET r == load_csv(df, column_info, f)
          IN /\ df' = r.df
             /\ column_info' = r.column_info
             /\ csvfile' = f
             /\ history' = Append(history, [call |-> "load", file |-> f, ret |-> r.ret])
    /\ UNCHANGED <<pc, plan, validation, filtered, opresult, response, reply, analyses, calls,
                   fit_converges, sessions, requests, upload_dir, datasets>>

\* engine.execute_plan(plan) is entered
ReuseExecute ==
    /\ pc = "idle"
    /\ Len(history) < MaxCalls
    /\ \E p \in ReusePlans : plan' = p
    /\ pc' = "execute"
    /\ calls' = <<>>
    /\ filtered' = NoFrame
    /\ opresult' = NoResponse
    /\ response' = NoResponse
    /\ UNCHANGED <<csvfile, validation, df, column_info, reply, analyses, history,
                   fit_converges, sessions, requests, upload_dir, datasets>>

\* execute_plan has returned to its caller
ReuseReturn ==
    /\ pc = "returned"
    /\ history' = Append(history, [call |-> "execute", plan |-> plan, frame |-> df,
                                   response |-> response, calls |-> calls])
    /\ pc' = "idle"
    /\ UNCHANGED <<plan, csvfile, validation, df, column_info, filtered, opresult, response,
                   reply, analyses, calls, fit_converges, sessions, requests, upload_dir, datasets>>

NextReuse ==
    \/ ReuseLoad
    \/ ReuseExecute
    \/ ExecBegin
    \/ ExecFilter
    \/ ExecDispatch
    \/ ExecChart
    \/ ReuseReturn

SpecReuse == InitReuse /\ [][NextReuse]_vars

(***************************************************************************)
(* Properties of a reused engine                                           *)
(***************************************************************************)
\* one of the first n completed calls was a load_csv that succeeded
LoadedWithin(n) ==
    \E j \in 1..n : history[j].call = "load" /\ history[j].ret.success

Executing == pc \in {"execute", "filtering", "dispatching", "charting", "returned"}

\* C12: an execute_plan call that no successful load_csv precedes (no load at
\* all, or only failed ones) returns success = false with the no-data-loaded
\* error, and neither applies filters nor dispatches an operation.
C12_NoDataLoadedWithoutLoad ==
    /\ \A i \in 1..Len(history) :
          history[i].call = "execute" /\ ~LoadedWithin(i - 1) =>
              /\ history[i].response = NoDataLoaded
              /\ ~history[i].response.success
              /\ history[i].calls = <<>>
    /\ Executing /\ ~LoadedWithin(Len(history)) =>
          /\ calls = <<>>
          /\ pc \in {"execute", "returned"}
          /\ pc = "returned" => response = NoDataLoaded

\* an execute_plan that came after nothing but a failed load
C12_Witness ==
    /\ Len(history) = 2
    /\ history[1].call = "load"
    /\ ~history[1].ret.success
    /\ history[2].call = "execute"
    /\ IsDict(history[2].plan)
    /\ IsList(Get(history[2].plan, "filters"))
    /\ Len(Get(history[2].plan, "filters").items) > 0
    /\ history[2].response = NoDataLoaded

\* what execute_plan handed back is a value with success = false, an error
\* message that is not empty, and no result
FailureValue(r) ==
    /\ "success" \in DOMAIN r
    /\ ~r.success
    /\ "error" \in DOMAIN r
    /\ r.error.msg # ""
    /\ "result" \notin DOMAIN r

\* the first filter of the plan cannot be applied to any frame of the model: it
\* lacks a key, or names a column no file has
FirstFilterUnusable(p) ==
    /\ IsDict(p) /\ IsList(Get(p, "filters")) /\ Len(Get(p, "filters").items) > 0
    /\ LET f == Get(p, "filters").items[1]
       IN \/ ~IsDict(f)
          \/ \E k \in {"column", "operator", "value"} : ~HasKey(f, k)
          \/ Get(f, "column") = S("price")

\* C13: execute_plan never raises: whatever the plan and the state of the
\* engine it returns a value, and a plan that is no mapping, has no operation
\* or has a filter that lacks a key or names an absent column ends as a value
\* with success = false, a non-empty error and no result field.
C13_ExecuteNeverRaises ==
    /\ pc = "returned" =>
          /\ "success" \in DOMAIN response
          /\ ~response.success => FailureValue(response)
          /\ ~IsDict(plan) \/ ~HasKey(plan, "operation") \/ FirstFilterUnusable(plan)
                => FailureValue(response)
    /\ \A i \in 1..Len(history) :
          history[i].call = "execute" =>
              /\ "success" \in DOMAIN history[i].response
              /\ ~history[i].response.success => FailureValue(history[i].response)

\* a plan without operation on a loaded frame: the KeyError comes back as a value
C13_Witness ==
    /\ pc = "returned"
    /\ df # NoFrame
    /\ IsDict(plan)
    /\ ~HasKey(plan, "operation")
    /\ Invoked("filter")
    /\ Len(filtered.rows) > 0
    /\ FailureValue(response)
    /\ response.error.exc = "KeyError"

\* what execute_plan returned, the chart left aside
WithoutChart(r) == [k \in DOMAIN r \ {"chart"} |-> r[k]]

\* calls i and j of the engine are execute_plan calls with the same plan, and no
\* load_csv was called between them
SamePlanNoLoadBetween(i, j) ==
    /\ history[i].call = "execute" /\ history[j].call = "execute"
    /\ history[i].plan = history[j].plan
    /\ \A k \in i..j : history[k].call # "load"

SeasonalForecastTwice ==
    /\ Len(history) = 3
    /\ SamePlanNoLoadBetween(2, 3)
    /\ history[2].response.success
    /\ history[2].plan.m.operation = S("forecast")
    /\ "method" \notin DOMAIN history[2].response.result

\* the steps of execute_plan give what the call as a whole gives
StepsAgreeWithCall ==
    pc = "returned" => \E drawn \in BOOLEAN : response = execute_plan(df, plan, drawn)

(***************************************************************************)
(* The Flask service: two request threads and the module's one engine      *)
(***************************************************************************)
Threads == {1, 2}

\* each thread serves the requests of one session
SessionOf(t) == IF t = 1 THEN "s1" ELSE "s2"

ServiceFiles ==
    { Unreadable,
      CsvFile(<<[region |-> "N", sales |-> "10"]>>),
      CsvFile(<<[region |-> "S", sales |-> "20"], [region |-> "S", sales |-> "unknown"]>>) }

ServicePlans ==
    { Plain(S("count"), Absent, L(<<>>)),
      Plain(S("sum"), S("sales"), L(<<EqFilter("region", S("S"))>>)),
      Plain(S("mode"), Absent, L(<<>>)),
      MkPlan(S("count"), Absent, L(<<>>), Absent, Absent, Absent, Absent, Absent,
             B(TRUE), S("Which region?")),
      MkPlan(S("count"), Absent, L(<<>>), Absent, Absent, Absent, Absent, Absent,
             B(TRUE), Absent) }

\* the service's own validator, as the specification describes validation
service_validate_plan(p) == validate_plan(p)

NoLoadResult == [pending |-> TRUE]

\* a thread about to serve the upload of its session's file
NewRequest(f, p) ==
    [phase |-> "upload", pc |-> "upload", file |-> f, plan |-> p,
     load_result |-> NoLoadResult, reply |-> NoResponse]

InitService ==
    /\ pc = "service"
    /\ plan = Null
    /\ csvfile = NoDataset
    /\ fit_converges = TRUE
    /\ validation = NoValidation
    /\ df = NoFrame
    /\ column_info = <<>>
    /\ filtered = NoFrame
    /\ opresult = NoResponse
    /\ response = NoResponse
    /\ reply = NoResponse
    /\ analyses = <<>>
    /\ calls = <<>>
    /\ history = <<>>
    /\ sessions = <<>>
    /\ requests \in [Threads -> {NewRequest(f, p) : f \in ServiceFiles, p \in ServicePlans}]
    /\ upload_dir = {}
    /\ datasets = <<>>

ServiceUnchanged ==
    UNCHANGED <<pc, plan, csvfile, fit_converges, validation, filtered, opresult, response,
                upload_dir, datasets,
                reply, analyses, calls, history>>

\* upload_csv, lines 58-67: the file is saved and load_csv entered
UploadSave(t) ==
    /\ requests[t].pc = "upload"
    /\ requests' = [requests EXCEPT ![t].pc = "read"]
    /\ UNCHANGED <<df, column_info, sessions>>
    /\ ServiceUnchanged

\* load_csv, line 38 (and 52-56 when read_csv raises)
LoadRead(t) ==
    /\ requests[t].pc = "read"
    /\ IF requests[t].file.readable
       THEN /\ df' = read_csv(requests[t].file)
            /\ requests' = [requests EXCEPT ![t].pc = "types"]
       ELSE /\ df' = df
            /\ requests' = [requests EXCEPT
                               ![t].pc = "loaded",
                               ![t].load_result = [success |-> FALSE,
                                                   error |-> "read_csv failed"]]
    /\ UNCHANGED <<column_info, sessions>>
    /\ ServiceUnchanged

\* load_csv, lines 41-43: the types of whatever frame the engine holds now
LoadTypes(t) ==
    /\ requests[t].pc = "types"
    /\ column_info' = df.dtypes
    /\ requests' = [requests EXCEPT ![t].pc = "result"]
    /\ UNCHANGED <<df, sessions>>
    /\ ServiceUnchanged

\* load_csv, lines 45-51: the dictionary is built from the engine's fields
LoadResult(t) ==
    /\ requests[t].pc = "result"
    /\ requests' = [requests EXCEPT
                       ![t].pc = "loaded",
                       ![t].load_result = [success |-> TRUE, columns |-> df.columns,
                                           column_types |-> column_info,
                                           row_count |-> Len(df.rows),
                                           preview |-> Head5(df.rows)]]
    /\ UNCHANGED <<df, column_info, sessions>>
    /\ ServiceUnchanged

\* upload_csv, lines 69-92; the session's execute request comes next
UploadStore(t) ==
    /\ requests[t].pc = "loaded"
    /\ requests[t].phase = "upload"
    /\ LET result == requests[t].load_result
       IN IF result.success
          THEN /\ sessions' = [s \in DOMAIN sessions \cup {SessionOf(t)} |->
                                  IF s = SessionOf(t)
                                  THEN [file_path |-> requests[t].file,
                                        columns |-> result.columns,
                                        column_types |-> result.column_types,
                                        row_count |-> result.row_count]
                                  ELSE sessions[s]]
               /\ requests' = [requests EXCEPT
                                  ![t].phase = "execute", ![t].pc = "request",
                                  ![t].load_result = NoLoadResult]
          ELSE /\ sessions' = sessions
               /\ requests' = [requests EXCEPT
                                  ![t].phase = "execute", ![t].pc = "request",
                                  ![t].load_result = NoLoadResult]
    /\ UNCHANGED <<df, column_info>>
    /\ ServiceUnchanged

\* main.py, lines 175-179: the body that asks the question back
ClarificationAnswer(p) ==
    [success |-> FALSE, requires_clarification |-> TRUE,
     clarification_question |-> Get(p, "clarification_question")]

\* execute_plan of main.py, lines 144-182
ExecuteCheck(t) ==
    /\ requests[t].pc = "request"
    /\ LET v == service_validate_plan(requests[t].plan)
       IN IF SessionOf(t) \notin DOMAIN sessions
          THEN requests' = [requests EXCEPT
                               ![t].pc = "done",
                               ![t].reply = HttpError(404, "Invalid session_id")]
          ELSE IF v.raised
          THEN requests' = [requests EXCEPT
                               ![t].pc = "done",
                               ![t].reply = HttpError(500, "Execution error")]
          ELSE IF ~v.valid
          THEN requests' = [requests EXCEPT
                               ![t].pc = "done",
                               ![t].reply = HttpError(400, "Plan validation failed")]
          ELSE IF Truthy(Get(requests[t].plan, "requires_clarification"))
          THEN requests' = [requests EXCEPT
                               ![t].pc = "done",
                               ![t].reply = HttpError(400, ClarificationAnswer(requests[t].plan))]
          ELSE requests' = [requests EXCEPT
                               ![t].pc = "read",
                               ![t].file = sessions[SessionOf(t)].file_path]
    /\ UNCHANGED <<df, column_info, sessions>>
    /\ ServiceUnchanged

\* lines 185-189
ExecuteLoaded(t) ==
    /\ requests[t].pc = "loaded"
    /\ requests[t].phase = "execute"
    /\ IF requests[t].load_result.success
       THEN requests' = [requests EXCEPT ![t].pc = "run"]
       ELSE requests' = [requests EXCEPT
                            ![t].pc = "done",
                            ![t].reply = HttpError(500, "Failed to load CSV")]
    /\ UNCHANGED <<df, column_info, sessions>>
    /\ ServiceUnchanged

\* lines 191-198: engine.execute_plan(plan) on the frame the engine holds now
ExecuteRun(t) ==
    /\ requests[t].pc = "run"
    /\ LET result == execute_plan(df, requests[t].plan, TRUE)
       IN requests' = [requests EXCEPT
                          ![t].pc = "done",
                          ![t].reply = [status |-> IF result.success THEN 200 ELSE 400,
                                        body |-> result]]
    /\ UNCHANGED <<df, column_info, sessions>>
    /\ ServiceUnchanged

NextService ==
    \E t \in Threads :
        \/ UploadSave(t)
        \/ LoadRead(t)
        \/ LoadTypes(t)
        \/ LoadResult(t)
        \/ UploadStore(t)
        \/ ExecuteCheck(t)
        \/ ExecuteLoaded(t)
        \/ ExecuteRun(t)

SpecService == InitService /\ [][NextService]_vars

(***************************************************************************)
(* Properties of the service                                               *)
(***************************************************************************)
\* what load_csv returns for a readable file, on an engine nobody else uses
Metadata(f) ==
    [success |-> TRUE, columns |-> read_csv(f).columns,
     column_types |-> read_csv(f).dtypes, row_count |-> Len(read_csv(f).rows),
     preview |-> Head5(read_csv(f).rows)]

\* C15: under every interleaving of upload and execute requests of different
\* sessions, what an execute request of session S returns is computed from
\* the frame loaded from S's own file.
C15_SessionIsolation ==
    \A t \in Threads :
        /\ requests[t].pc = "done"
        /\ "body" \in DOMAIN requests[t].reply
        => requests[t].reply.body =
               execute_plan(read_csv(sessions[SessionOf(t)].file_path), requests[t].plan, TRUE)

\* C16: under every interleaving of load_csv calls on the one engine, the
\* columns, column_types, row_count and preview that load_csv(f) returns all
\* describe f, none of them the frame of another dataset.
C16_LoadReplacesAtomically ==
    \A t \in Threads :
        /\ requests[t].pc = "loaded"
        /\ requests[t].load_result.success
        => requests[t].load_result = Metadata(requests[t].file)

(***************************************************************************)
(* Properties of the operations                                            *)
(***************************************************************************)
\* the values a column takes in the filtered frame
DistinctValues(c) == {filtered.rows[i][c] : i \in 1..Len(filtered.rows)}

\* execute_plan returned after handing the filtered frame to the operation
OperationRan(op) ==
    /\ pc = "returned"
    /\ Invoked("dispatch")
    /\ plan.m.operation = S(op)

\* C17: a regression over a filtered frame with fewer than 2 distinct values
\* in the x_axis column ends as a failure (success = false) and gives no slope,
\* intercept or r_squared.
C17_RegressionNeedsTwoXValues ==
    /\ OperationRan("regression")
    /\ IsStr(Get(plan, "x_axis"))
    /\ Get(plan, "x_axis").s \in ColumnSet(filtered)
    /\ Cardinality(DistinctValues(Get(plan, "x_axis").s)) < 2
    => /\ ~response.success
       /\ "result" \notin DOMAIN response

\* the forecast plan names a time and a target column that the filtered frame has
ForecastOnExistingColumns ==
    /\ OperationRan("forecast")
    /\ IsStr(Get(plan, "time_column")) /\ Get(plan, "time_column").s \in ColumnSet(filtered)
    /\ IsStr(Get(plan, "target_column")) /\ Get(plan, "target_column").s \in ColumnSet(filtered)

TargetIsNumeric == filtered.dtypes[plan.m.target_column.s] = "int64"

\* the seasonal model cannot be fitted: too few points for two seasonal cycles,
\* or the fit does not come through
SeasonalFitFails == Len(filtered.rows) < 2 * seasonal_periods \/ ~fit_converges

\* the target values of the last min(n, 12) rows in time order
Window ==
    ColumnCells(TrainWindow(SortRows(filtered.rows, plan.m.time_column.s)),
                plan.m.target_column.s)

\* v is the target value of a row that no row follows in time
IsLastActual(v) ==
    \E i \in 1..Len(filtered.rows) :
        /\ \A j \in 1..Len(filtered.rows) :
              CellRank(filtered.rows[j][plan.m.time_column.s])
                  <= CellRank(filtered.rows[i][plan.m.time_column.s])
        /\ v = Rat(filtered.rows[i][plan.m.target_column.s].n, 1)

\* the result of a forecast: 3 values and the last actual, and when the
\* seasonal fit fails 3 times the mean of the window, tagged simple_average
ForecastResultAsClaimed ==
    /\ response.success
    /\ Len(response.result.forecast_values) = 3
    /\ IsLastActual(response.result.last_actual)
    /\ SeasonalFitFails =>
          /\ "method" \in DOMAIN response.result
          /\ response.result.method = "simple_average"
          /\ \A k \in 1..3 :
                response.result.forecast_values[k]
                    = Rat(SumSeq(Numbers(Window)), Len(Window))
    /\ ~SeasonalFitFails =>
          /\ "method" \notin DOMAIN response.result
          /\ \A k \in 1..3 : response.result.forecast_values[k].t = "seasonal"

\* C18, as stated: a forecast on a non-empty filtered frame with existing time
\* and target columns always succeeds with exactly 3 forecast values and
\* last_actual the last value of the time-sorted series, and whenever the
\* seasonal fit fails the 3 values are the mean of the training window, tagged
\* method = simple_average.
C18_ForecastAlwaysFallsBack ==
    ForecastOnExistingColumns => ForecastResultAsClaimed

\* C18, amended: the above holds when the target column is numeric; a forecast
\* of a text column ends with success = false, the mean of the fallback not
\* being defined for text.
C18_NumericForecastFallsBack ==
    ForecastOnExistingColumns =>
        IF TargetIsNumeric THEN ForecastResultAsClaimed
        ELSE FailureValue(response) /\ response.error.exc = "TypeError"

\* the fallback on two rows that the file holds in reverse time order
C18_Witness ==
    /\ ForecastOnExistingColumns
    /\ TargetIsNumeric
    /\ SeasonalFitFails
    /\ Len(filtered.rows) = 2
    /\ plan.m.time_column = S("month")
    /\ filtered.rows[1].month.n > filtered.rows[2].month.n
    /\ filtered.rows[1].sales # filtered.rows[2].sales
    /\ response.success
    /\ response.result.method = "simple_average"
    /\ response.result.last_actual = Rat(filtered.rows[1].sales.n, 1)

\* the seasonal model fitted on two cycles of months
SeasonalForecast ==
    /\ ForecastOnExistingColumns
    /\ ~SeasonalFitFails
    /\ response.success
    /\ "method" \notin DOMAIN response.result

Aggregations == {"mean", "sum", "count", "min", "max", "std"}

\* execute_plan returned the result of one of the six aggregations
AggregationRan ==
    /\ pc = "returned"
    /\ Invoked("dispatch")
    /\ \E op \in Aggregations : plan.m.operation = S(op)

\* the group key of a row of the filtered frame under the plan's group_by
KeyOf(row) ==
    LET by == plan.m.group_by.items
    IN IF Len(by) = 1 THEN row[by[1].s] ELSE [i \in 1..Len(by) |-> row[by[i].s]]

\* the aggregate the plan asks for, over the given rows of the filtered frame
AggregateOver(rows) ==
    IF plan.m.operation = S("count") THEN Ok(Rat(Len(rows), 1))
    ELSE Aggregate(filtered, plan.m.operation.s, rows, plan.m.target_column.s)

CountIgnoresTarget ==
    /\ AggregationRan
    /\ plan.m.operation = S("count")
    /\ plan.m.target_column = S("price")
    /\ plan.m.group_by = L(<<S("region")>>)
    /\ response.success
    /\ Cardinality(DOMAIN response.result.m) = 2

(***************************************************************************)
(* The loaded frame across calls                                           *)
(***************************************************************************)
\* C20: execute_plan, whatever the plan and the outcome, leaves the engine's
\* loaded frame (rows, their order, columns) and column_info as they were;
\* only load_csv changes them, and it replaces both as a whole with what the
\* file holds.
C20_OnlyLoadChangesFrame ==
    [][ /\ Executing => df' = df /\ column_info' = column_info
        /\ df' # df \/ column_info' # column_info =>
              /\ pc = "idle" /\ pc' = "idle"
              /\ Len(history') = Len(history) + 1
              /\ history'[Len(history')].call = "load"
              /\ history'[Len(history')].ret.success
              /\ df' = read_csv(csvfile')
              /\ column_info' = read_csv(csvfile').dtypes ]_vars

\* the rows of the frame are in the order of the given column
InOrderOf(frame, c) ==
    \A i \in 1..(Len(frame.rows) - 1) :
        CellRank(frame.rows[i][c]) <= CellRank(frame.rows[i + 1][c])

\* after a filtered sum that kept half of the rows and a forecast that sorted
\* them by region, the engine still holds the eight rows in the file's order
C20_Witness ==
    /\ Len(history) = 3
    /\ pc = "idle"
    /\ history[1].call = "load" /\ history[1].file = LongSeries
    /\ history[2].call = "execute"
    /\ history[2].response.success
    /\ history[2].response.filtered_row_count < Len(df.rows)
    /\ history[3].call = "execute"
    /\ IsDict(history[3].plan)
    /\ history[3].plan.m.operation = S("forecast")
    /\ history[3].response.success
    /\ df = read_csv(LongSeries)
    /\ ~InOrderOf(df, "region")
    /\ column_info = df.dtypes

(***************************************************************************)
(* Aggregations without a target column                                    *)
(***************************************************************************)
TargetAggregations == {"mean", "sum", "min", "max", "std"}

\* the plan asks for an aggregation of a target column and names none
NoTargetColumn ==
    /\ IsDict(plan)
    /\ OperationIs(plan, TargetAggregations)
    /\ Get(plan, "target_column") = Null

\* execute_plan returned after its filters left at least one row
ReturnedOnRows ==
    /\ pc = "returned"
    /\ Invoked("filter")
    /\ filtered # NoFrame
    /\ ~IsEmpty(filtered)

TargetRecommended == Err("operation_specific", "target_column_recommended", -1)

\* C21: a plan with operation in {mean, sum, min, max, std} and no
\* target_column is accepted by validate_plan with valid = true and the
\* target-column warning, and execute_plan on a non-empty filtered frame always
\* ends with success = false and an execution error (the KeyError of the
\* missing column), with or without group_by: no default column is applied.
C21_NoDefaultTargetColumn ==
    NoTargetColumn =>
        /\ validate_plan(plan) = Verdict(<<>>, <<TargetRecommended>>)
        /\ validate_plan(plan).valid
        /\ pc # "charting"
        /\ ReturnedOnRows =>
              /\ Invoked("dispatch")
              /\ response.success = FALSE
              /\ \E e \in {response.error} :
                    /\ response = ExecutionFailed(e)
                    /\ e.exc = "KeyError"
                    /\ IF Truthy(Get(plan, "group_by"))
                       THEN e.msg \in {"column_not_found", "key"}
                       ELSE e = Exc("KeyError", "key", <<Null>>)
              /\ opresult = NoResponse

\* the mean by region of no column, over the eight months
C21_Witness ==
    /\ NoTargetColumn
    /\ ReturnedOnRows
    /\ plan.m.operation = S("mean")
    /\ plan.m.target_column = Absent
    /\ plan.m.group_by = L(<<S("region")>>)
    /\ Len(filtered.rows) = 8
    /\ response = ExecutionFailed(Exc("KeyError", "column_not_found", <<Null>>))

\* the sum of no column over the whole frame, the plan as the handler passes it
UngroupedWithoutTarget ==
    /\ NoTargetColumn
    /\ ReturnedOnRows
    /\ plan.m.operation = S("sum")
    /\ plan.m.target_column = Null
    /\ ~Truthy(Get(plan, "group_by"))
    /\ response = ExecutionFailed(Exc("KeyError", "key", <<Null>>))

(***************************************************************************)
(* Plans that ask for clarification, at both /execute handlers             *)
(***************************************************************************)
\* a request to /analytics/execute of the backend, or the requests of the
\* service's two threads
InitExecute == Init \/ InitService

NextExecute ==
    \/ pc # "service" /\ Next
    \/ pc = "service" /\ NextService

SpecExecute == InitExecute /\ [][NextExecute]_vars

AsksClarification(p) == IsDict(p) /\ Get(p, "requires_clarification") = B(TRUE)

QuestionMissing == Err("clarification", "clarification_question_missing", -1)

\* the backend handler found the dataset and ended a request whose plan asks
\* for clarification
BackendClarificationEnded ==
    /\ pc = "done"
    /\ csvfile # NoDataset
    /\ AsksClarification(plan)

\* thread t of the service ended the execute request of a known session whose
\* plan asks for clarification
ServiceClarificationEnded(t) ==
    /\ pc = "service"
    /\ requests[t].phase = "execute"
    /\ requests[t].pc = "done"
    /\ SessionOf(t) \in DOMAIN sessions
    /\ AsksClarification(requests[t].plan)

\* C22: neither /execute handler executes a plan with
\* requires_clarification = true: the request is either rejected by validation
\* (as it is when the question is empty) or answered with success = false,
\* requires_clarification = true and the question; either way the request
\* loads no dataset into an engine, never calls execute_plan and writes no
\* Analysis record.
C22_ClarificationNeverExecuted ==
    /\ pc # "service" /\ AsksClarification(plan) =>
          /\ pc \in {"h_lookup", "h_validate", "h_clarify", "done"}
          /\ ~Invoked("load") /\ ~Invoked("filter") /\ ~Invoked("dispatch")
          /\ df = NoFrame /\ filtered = NoFrame
          /\ response = NoResponse
          /\ analyses = <<>>
          /\ BackendClarificationEnded =>
                IF ~Truthy(Get(plan, "clarification_question")) \/ ~validation.valid
                THEN /\ reply = HttpError(400, [error |-> "Plan validation failed",
                                                validation_errors |-> validation.errors])
                     /\ Len(validation.errors) > 0
                     /\ ~Truthy(Get(plan, "clarification_question"))
                           => QuestionMissing \in SeqToSet(validation.errors)
                ELSE reply = [status |-> 200,
                              body |-> [success |-> FALSE, requires_clarification |-> TRUE,
                                        clarification_question |-> plan.m.clarification_question]]
    /\ pc = "service" =>
          \A t \in Threads :
              requests[t].phase = "execute" /\ AsksClarification(requests[t].plan) =>
                  /\ requests[t].pc \in {"request", "done"}
                  /\ requests[t].load_result = NoLoadResult
                  /\ ServiceClarificationEnded(t) =>
                        IF ~Truthy(Get(requests[t].plan, "clarification_question"))
                        THEN requests[t].reply = HttpError(400, "Plan validation failed")
                        ELSE requests[t].reply =
                                 HttpError(400, [success |-> FALSE,
                                                 requires_clarification |-> TRUE,
                                                 clarification_question |->
                                                     requests[t].plan.m.clarification_question])

\* the backend answered a count that asks "Which region?" with the question
C22_Witness ==
    /\ BackendClarificationEnded
    /\ Invoked("validate")
    /\ validation.valid
    /\ plan.m.clarification_question = S("Which region?")
    /\ reply.status = 200
    /\ reply.body.clarification_question = S("Which region?")
    /\ analyses = <<>>

\* the backend rejected a plan that asks for clarification without a question
ClarificationRejected ==
    /\ BackendClarificationEnded
    /\ plan.m.clarification_question = Null
    /\ reply.status = 400
    /\ validation.errors = <<QuestionMissing>>

\* the service answered one thread with the question while the other thread
\* executed its plan on the engine
ServiceClarificationAnswered ==
    /\ ServiceClarificationEnded(1)
    /\ Get(requests[1].plan, "clarification_question") = S("Which region?")
    /\ requests[1].reply = HttpError(400, ClarificationAnswer(requests[1].plan))
    /\ requests[2].pc = "done"
    /\ "body" \in DOMAIN requests[2].reply
    /\ df # NoFrame

\* the service rejected a plan that asks for clarification without a question
ServiceClarificationRejected ==
    /\ ServiceClarificationEnded(1)
    /\ Get(requests[1].plan, "clarification_question") = Null
    /\ requests[1].reply = HttpError(400, "Plan validation failed")

(***************************************************************************)
(* The /analytics/upload handler                                           *)
(***************************************************************************)
\* the upload of a file under a name
Upload(name, f) ==
    [k \in DOMAIN f \cup {"filename"} |-> IF k = "filename" THEN name ELSE f[k]]

Uploads == { Upload(name, f) : name \in {"data.csv", "data.txt"}, f \in Files }

\* line 42
EndsWithCsv(name) == name = "data.csv"

\* lines 49-52: the path of the request's session under UPLOAD_DIR
file_path == "uploads/wa_1.csv"

session_id == "wa_1"

\* lines 64-67
HTTPException(status_code, detail) ==
    [exc |-> "HTTPException", status_code |-> status_code, detail |-> detail]

\* lines 96-103: except Exception catches whatever the try block raised, the
\* handler's own HTTPException included, removes the file if it is still
\* there and raises the 500
UploadFailed(e) == HttpError(500, [prefix |-> "Upload failed", exc |-> e])

\* lines 70-79
Dataset(upload, result) ==
    [session_id |-> session_id, filename |-> upload.filename, file_path |-> file_path,
     row_count |-> result.row_count, column_count |-> Len(result.columns),
     columns |-> result.columns, column_types |-> result.column_types]

InitUpload ==
    /\ pc = "u_check"
    /\ plan = Null
    /\ csvfile \in Uploads
    /\ fit_converges = TRUE
    /\ Idle

\* lines 42-46
UploadCheck ==
    /\ pc = "u_check"
    /\ IF ~EndsWithCsv(csvfile.filename)
       THEN reply' = HttpError(400, "Only CSV files are allowed") /\ pc' = "done"
       ELSE reply' = reply /\ pc' = "u_save"
    /\ UNCHANGED <<history, fit_converges, sessions, requests, upload_dir, datasets, plan,
                   csvfile, validation, df, column_info, filtered, opresult, response,
                   analyses, calls>>

\* lines 55-56, and 96-103 when the copy raises with the file already opened
UploadCopy ==
    /\ pc = "u_save"
    /\ calls' = Append(calls, "save")
    /\ \E copied \in BOOLEAN :
          IF copied
          THEN upload_dir' = upload_dir \cup {file_path} /\ reply' = reply /\ pc' = "u_load"
          ELSE /\ upload_dir' = upload_dir \ {file_path}
               /\ reply' = UploadFailed([exc |-> "OSError"])
               /\ pc' = "done"
    /\ UNCHANGED <<history, fit_converges, sessions, requests, datasets, plan, csvfile,
                   validation, df, column_info, filtered, opresult, response, analyses>>

\* lines 59-67: a fresh engine loads the saved file; on failure the file is
\* removed and HTTPException(400) raised inside the try block, where lines
\* 96-103 catch it
UploadLoad ==
    /\ pc = "u_load"
    /\ calls' = Append(calls, "load")
    /\ LET r == load_csv(NoFrame, <<>>, csvfile)
       IN /\ df' = r.df
          /\ column_info' = r.column_info
          /\ IF ~r.ret.success
             THEN /\ upload_dir' = upload_dir \ {file_path}
                  /\ reply' = UploadFailed(HTTPException(400, r.ret.error))
                  /\ pc' = "done"
             ELSE upload_dir' = upload_dir /\ reply' = reply /\ pc' = "u_store"
    /\ UNCHANGED <<history, fit_converges, sessions, requests, datasets, plan, csvfile,
                   validation, filtered, opresult, response, analyses>>

\* lines 70-94, and 96-103 when the commit raises
UploadCommit ==
    /\ pc = "u_store"
    /\ calls' = Append(calls, "commit")
    /\ LET result == load_csv(NoFrame, <<>>, csvfile).ret
       IN \E committed \in BOOLEAN :
             IF committed
             THEN /\ datasets' = Append(datasets, Dataset(csvfile, result))
                  /\ upload_dir' = upload_dir
                  /\ reply' = [status |-> 200,
                               body |-> [success |-> TRUE, session_id |-> session_id,
                                         metadata |-> [columns |-> result.columns,
                                                       column_types |-> result.column_types,
                                                       row_count |-> result.row_count,
                                                       preview |-> result.preview]]]
             ELSE /\ datasets' = datasets
                  /\ upload_dir' = upload_dir \ {file_path}
                  /\ reply' = UploadFailed([exc |-> "SQLAlchemyError"])
    /\ pc' = "done"
    /\ UNCHANGED <<history, fit_converges, sessions, requests, plan, csvfile, validation, df,
                   column_info, filtered, opresult, response, analyses>>

NextUpload ==
    \/ UploadCheck
    \/ UploadCopy
    \/ UploadLoad
    \/ UploadCommit

SpecUpload == InitUpload /\ [][NextUpload]_vars

\* upload_csv ended after load_csv failed on the saved file
LoadFailedOnUpload ==
    /\ pc = "done"
    /\ Invoked("load")
    /\ ~load_csv(NoFrame, <<>>, csvfile).ret.success

\* C23: when load_csv fails on the uploaded file, upload_csv ends with HTTP
\* status 400 whose detail is the loader's error message, the saved file has
\* been removed and no Dataset record has been created.
C23_LoadFailureIs400 ==
    LoadFailedOnUpload =>
        /\ reply.status = 400
        /\ reply.detail = load_csv(NoFrame, <<>>, csvfile).ret.error
        /\ file_path \notin upload_dir
        /\ datasets = <<>>

\* what the handler does on a load failure: the 400 it raises is caught by its
\* own except clause and leaves as a 500; the file is gone and no Dataset row
\* was made
LoadFailureLeavesAs500 ==
    LoadFailedOnUpload =>
        /\ reply = UploadFailed(HTTPException(400, load_csv(NoFrame, <<>>, csvfile).ret.error))
        /\ reply.status = 500
        /\ file_path \notin upload_dir
        /\ datasets = <<>>

\* an unreadable data.csv was saved, failed to load and was removed
UnreadableUploaded ==
    /\ LoadFailedOnUpload
    /\ calls = <<"save", "load">>
    /\ upload_dir = {}

\* a readable data.csv was stored as a Dataset, its file kept
UploadStored ==
    /\ pc = "done"
    /\ reply.status = 200
    /\ Len(datasets) = 1
    /\ datasets[1].row_count = 2
    /\ upload_dir = {file_path}

====
